---------------------------- MODULE Spec2Model ----------------------------
(***************************************************************************)
(* A model of PyPcre's resource-caching subsystem.                         *)
(*                                                                         *)
(*   src/pcre/pattern_cache.c   the compiled-pattern cache: a thread-local *)
(*                              dict per thread, or one global dict with   *)
(*                              an order ledger, and its strategy switch   *)
(*   src/pcre_ext/cache.c       the match-data and JIT-stack pools, the    *)
(*                              match-context cache and their own strategy *)
(*                              switch                                     *)
(*   src/pcre_ext/hash.c        the sparse FNV hash of a pattern           *)
(*   src/pcre_ext/cache_key.c   the cache key object: its hash and its     *)
(*                              comparison                                 *)
(*                                                                         *)
(* A Python dict is modelled as the sequence of its <<key, value>> items   *)
(* in insertion order (the order its iterator yields), a Python list as a  *)
(* sequence, a C singly linked list as the sequence of its nodes from the  *)
(* head. Objects the external engine constructs are numbered in order of   *)
(* construction, so that identity is comparable.                           *)
(***************************************************************************)
EXTENDS Integers, Sequences, FiniteSets, TLC

\* ------------------------------------------------------------------ bounds

NumPatterns == 2        \* distinct pattern texts a caller passes
NumThreads == 2         \* threads calling into the subsystem
MaxLimit == 2           \* largest capacity a caller sets
MaxCompiles == 4        \* values the external compile service constructs in one run
MaxObjects == 3         \* match-data blocks and JIT stacks constructed in one run
WordModulus == 256      \* uint32_t arithmetic is done modulo this (2^32 in the code)

\* ------------------------------------------------------- program constants

DEFAULT_THREAD_CACHE_LIMIT == 32
DEFAULT_GLOBAL_CACHE_LIMIT == 128
CompactThreshold == 64
DEFAULT_THREAD_MATCH_CAPACITY == 8
DEFAULT_THREAD_JIT_CAPACITY == 4
DEFAULT_GLOBAL_MATCH_CAPACITY == 32
DEFAULT_GLOBAL_JIT_CAPACITY == 16
DEFAULT_JIT_START_SIZE == 32768
DEFAULT_JIT_MAX_SIZE == 1048576

CACHE_STRATEGY_THREAD_LOCAL == "thread-local"
CACHE_STRATEGY_GLOBAL == "global"
Strategies == {CACHE_STRATEGY_THREAD_LOCAL, CACHE_STRATEGY_GLOBAL}

\* ------------------------------------------------------------ input spaces

Patterns == 1..NumPatterns
Flags == {0}
Jits == {FALSE, TRUE}
\* the key tuple cached_compile builds: (pattern, flags, jit)
Keys == Patterns \X Flags \X Jits
Threads == 1..NumThreads
MainThread == 1
NoThread == 0
NoValue == 0
PyNone == << >>
\* the argument of cache_strategy / set_cache_strategy
StrategyArgs == Strategies \cup {"bogus"}
\* values of the environment flag; NULL is the unset variable
EnvNull == <<"NULL">>
EnvValues == {EnvNull, << >>, <<"0">>, <<"1">>, <<"f", "a", "l", "s", "e">>,
              <<"N", "o">>, <<"y", "e", "s">>, <<"t", "r", "u", "e">>}

\* capture counts of the patterns a caller matches with
CaptureCounts == {0, 2, WordModulus - 1}
\* the argument of set_match_data_cache_size / set_jit_stack_cache_size: a
\* capacity the constructed objects can fill, and the least size beyond the
\* capacity field
SizeArgs == {2, WordModulus}
\* the arguments (start, max) of set_jit_stack_limits: an ordered pair of
\* sizes, and one pair for each way of being refused
StackLimitArgs == {<<1, 2>>, <<0, 1>>, <<1, 0>>, <<2, 1>>}

VARIABLES
    CURRENT_STRATEGY,       \* pattern_cache.c: the pattern cache's strategy
    CACHE_STRATEGY_LOCKED,  \* pattern_cache.c: set by the first cached_compile
    threadEntry,            \* pattern_cache.c: each thread's ThreadCacheEntry
    gstate,                 \* pattern_cache.c: GLOBAL_STATE_OBJ (dict, limit, order, order_head)
    glock,                  \* pattern_cache.c: holder of GLOBAL_STATE_OBJ->lock
    call,                   \* each thread's position inside a global cached_compile
    constructed,            \* values the compile service has constructed (a value's identity)
    ret,                    \* each thread's last returned result
    missLog,                \* keys inserted since the last clear or capacity change
    lastRet,                \* per key, the value last returned for it (see TrackReturns)
    cache_strategy,         \* cache.c: the scratch pools' strategy
    cache_strategy_locked,  \* cache.c: set by the first acquire or release
    tstate,                 \* cache.c: each thread's ThreadCacheState
    gpool,                  \* cache.c: the global match-data and JIT-stack pools
    held,                   \* scratch objects acquired and not yet released, per thread
    freed,                  \* identities of the scratch objects destroyed so far
    made,                   \* scratch objects constructed so far (an object's identity)
    pret,                   \* each thread's last result of a cache.c operation
    context_cache_enabled,  \* cache.c: whether match contexts are kept per thread
    ctxSeen,                \* per thread and kind, the context a cached acquire returned
    lent,                   \* match contexts acquired and not yet released, per thread
    frame,                  \* each thread's operation in progress, section by section
    plocks,                 \* cache.c: holders of cache_state_lock and the pool locks
    keys,                   \* cache_key.c: the SparseCacheKey objects under comparison
    compared,               \* cache_key.c: the last rich comparison and its result
    hashed,                 \* hash.c: the last sparse_half_hash call and its result
    exited,                 \* the threads that have exited
    handle,                 \* cache.c: cache_tss_created, and each lock pointer being non-NULL
    deleted,                \* cache.c: the key and the locks deleted or freed so far
    misuse                  \* what was used after its destruction, or destroyed twice

patternVars == <<CURRENT_STRATEGY, CACHE_STRATEGY_LOCKED, threadEntry, gstate, glock,
                 call, constructed, ret>>
poolVars == <<cache_strategy, cache_strategy_locked, tstate, gpool, held, freed,
              made, pret>>
auxVars == <<context_cache_enabled, lent, frame, plocks>>
patternVars_but_glock == <<CURRENT_STRATEGY, CACHE_STRATEGY_LOCKED, threadEntry, gstate,
                           call, constructed, ret>>
keyVars == <<keys, compared, hashed>>
teardownVars == <<exited, handle, deleted, misuse>>
sideVars == <<keyVars, teardownVars>>
vars == <<patternVars, missLog, lastRet, poolVars, auxVars, ctxSeen, sideVars>>

\* ---------------------------------------------------------- dict helpers

RECURSIVE DictIndex(_, _, _)
\* position of key in the dict, 0 when absent; keys compare by value
DictIndex(m, key, i) ==
    IF i > Len(m) THEN 0
    ELSE IF m[i][1] = key THEN i
    ELSE DictIndex(m, key, i + 1)

DictHas(m, key) == DictIndex(m, key, 1) # 0

DictKeys(m) == [i \in 1..Len(m) |-> m[i][1]]

DictKeySet(m) == {m[i][1] : i \in 1..Len(m)}

\* a faulty variant: keys compared by identity, so the fresh key tuple is never found
mapping_get_by_identity(m, key) == NoValue

\* PyObject_GetItem / PyDict_GetItemWithError: the value, NoValue on KeyError
mapping_get(m, key) ==
    IF DictHas(m, key) THEN m[DictIndex(m, key, 1)][2] ELSE NoValue

\* PyObject_SetItem / PyDict_SetItem: a new key goes last, a present key keeps its place
mapping_set(m, key, value) ==
    IF DictHas(m, key)
    THEN [m EXCEPT ![DictIndex(m, key, 1)] = <<key, value>>]
    ELSE Append(m, <<key, value>>)

\* PyDict_DelItem with the KeyError cleared
DictDel(m, key) ==
    IF DictHas(m, key)
    THEN LET i == DictIndex(m, key, 1)
         IN SubSeq(m, 1, i - 1) \o SubSeq(m, i + 1, Len(m))
    ELSE m

mapping_clear(m) == << >>

\* a faulty variant: pops the key inserted last
remove_newest_entry(m) == IF m = << >> THEN m ELSE SubSeq(m, 1, Len(m) - 1)

\* pops the first key the dict's iterator yields
remove_oldest_entry(m) == IF m = << >> THEN m ELSE Tail(m)

RECURSIVE ensure_capacity_loop_late(_, _, _)
\* a faulty variant: makes no room for the entry about to be stored
ensure_capacity_loop_late(m, size, limit) ==
    IF size > limit
    THEN ensure_capacity_loop_late(remove_oldest_entry(m), size - 1, limit)
    ELSE m

RECURSIVE ensure_capacity_loop(_, _, _)
ensure_capacity_loop(m, size, limit) ==
    IF size >= limit
    THEN ensure_capacity_loop(remove_oldest_entry(m), size - 1, limit)
    ELSE m

mapping_ensure_capacity(m, limit) ==
    IF limit < 0 THEN m
    ELSE IF limit = 0 THEN mapping_clear(m)
    ELSE ensure_capacity_loop(m, Len(m), limit)

\* ------------------------------------------- thread-local pattern cache

\* a ThreadCacheEntry as thread_cache_entry_get allocates it
NewThreadEntry ==
    [exists |-> TRUE, pattern_cache |-> << >>,
     cache_limit |-> DEFAULT_THREAD_CACHE_LIMIT]

\* the thread has no entry yet (PyThread_tss_get returns NULL)
AbsentEntry ==
    [exists |-> FALSE, pattern_cache |-> << >>,
     cache_limit |-> DEFAULT_THREAD_CACHE_LIMIT]

thread_cache_entry_get(entry, create) ==
    IF entry.exists \/ ~create THEN entry ELSE NewThreadEntry

\* the insertion of a freshly compiled value into the thread's dict
thread_insert(entry, key, value) ==
    IF entry.cache_limit # 0
    THEN LET trimmed == IF entry.cache_limit > 0
                        THEN mapping_ensure_capacity(entry.pattern_cache, entry.cache_limit)
                        ELSE entry.pattern_cache
         IN [entry EXCEPT !.pattern_cache = mapping_set(trimmed, key, value)]
    ELSE entry

\* a faulty variant: room is made for the new entry before the compile service is called
thread_cached_compile_evict_first(entry0, key, ok, fresh) ==
    LET entry == thread_cache_entry_get(entry0, TRUE)
        cached == mapping_get(entry.pattern_cache, key)
        built == IF ok THEN fresh ELSE NoValue
        trimmed == [entry EXCEPT !.pattern_cache =
                       IF entry.cache_limit > 0
                       THEN mapping_ensure_capacity(@, entry.cache_limit) ELSE @]
    IN IF entry.cache_limit = 0
       THEN [state |-> entry, value |-> built, error |-> ~ok,
             compiled |-> TRUE, inserted |-> FALSE]
       ELSE IF cached # NoValue
       THEN [state |-> entry, value |-> cached, error |-> FALSE,
             compiled |-> FALSE, inserted |-> FALSE]
       ELSE IF ~ok
       THEN [state |-> trimmed, value |-> NoValue, error |-> TRUE,
             compiled |-> TRUE, inserted |-> FALSE]
       ELSE [state |-> thread_insert(entry, key, fresh), value |-> fresh,
             error |-> FALSE, compiled |-> TRUE, inserted |-> TRUE]

\* cached_compile under the thread-local strategy. ok is the outcome of the
\* compile service, fresh the identity of the value it would construct.
\* Gives the entry afterwards, the value returned (NoValue with an error set),
\* and whether the compile service was called.
thread_cached_compile(entry0, key, ok, fresh) ==
    LET entry == thread_cache_entry_get(entry0, TRUE)
        cached == mapping_get(entry.pattern_cache, key)
        built == IF ok THEN fresh ELSE NoValue
    IN IF entry.cache_limit = 0
       THEN [state |-> entry, value |-> built, error |-> ~ok,
             compiled |-> TRUE, inserted |-> FALSE]
       ELSE IF cached # NoValue
       THEN [state |-> entry, value |-> cached, error |-> FALSE,
             compiled |-> FALSE, inserted |-> FALSE]
       ELSE IF ~ok
       THEN [state |-> entry, value |-> NoValue, error |-> TRUE,
             compiled |-> TRUE, inserted |-> FALSE]
       ELSE [state |-> thread_insert(entry, key, fresh), value |-> fresh,
             error |-> FALSE, compiled |-> TRUE, inserted |-> TRUE]

\* a faulty variant: a limit of 0 is stored without clearing the dict
thread_set_cache_limit_keep(entry0, limit) ==
    LET entry == thread_cache_entry_get(entry0, TRUE)
    IN [entry EXCEPT
          !.cache_limit = limit,
          !.pattern_cache = IF limit > 0 THEN mapping_ensure_capacity(@, limit)
                            ELSE @]

\* set_cache_limit under the thread-local strategy, limit already parsed
thread_set_cache_limit(entry0, limit) ==
    LET entry == thread_cache_entry_get(entry0, TRUE)
    IN [entry EXCEPT
          !.cache_limit = limit,
          !.pattern_cache = IF limit = 0 THEN mapping_clear(@)
                            ELSE IF limit > 0 THEN mapping_ensure_capacity(@, limit)
                            ELSE @]

\* clear_cache under the thread-local strategy
thread_clear_cache(entry0) ==
    LET entry == thread_cache_entry_get(entry0, FALSE)
    IN IF entry.exists THEN [entry EXCEPT !.pattern_cache = mapping_clear(@)]
       ELSE entry

\* ------------------------------------------------- global pattern cache

\* GLOBAL_STATE_OBJ as cache_module_exec leaves it
InitialGlobalState ==
    [pattern_cache |-> << >>, cache_limit |-> DEFAULT_GLOBAL_CACHE_LIMIT,
     order |-> << >>, order_head |-> 0]

\* a faulty variant: the prefix is dropped as soon as it is more than half the ledger
global_cache_compact_order_eager(st) ==
    IF st.order_head * 2 <= Len(st.order)
    THEN st
    ELSE [st EXCEPT !.order = SubSeq(@, st.order_head + 1, Len(@)),
                    !.order_head = 0]

global_cache_compact_order(st) ==
    IF st.order_head <= CompactThreshold \/ st.order_head * 2 <= Len(st.order)
    THEN st
    ELSE [st EXCEPT !.order = SubSeq(@, st.order_head + 1, Len(@)),
                    !.order_head = 0]

RECURSIVE global_cache_evict_one(_)
global_cache_evict_one(st) ==
    IF st.order_head < Len(st.order)
    THEN LET index == st.order_head
             candidate == st.order[index + 1]
             advanced == [st EXCEPT !.order_head = index + 1]
         IN IF candidate = PyNone
            THEN global_cache_evict_one(advanced)
            ELSE global_cache_compact_order(
                     [advanced EXCEPT
                        !.pattern_cache = DictDel(@, candidate),
                        !.order[index + 1] = PyNone])
    ELSE global_cache_compact_order(st)

RECURSIVE global_trim_loop(_)
global_trim_loop(st) ==
    IF Len(st.pattern_cache) > st.cache_limit
    THEN LET next == global_cache_evict_one(st)
         IN IF next.order_head >= Len(next.order) THEN next
            ELSE global_trim_loop(next)
    ELSE st

global_cache_trim(st) ==
    IF st.cache_limit < 0 THEN st ELSE global_trim_loop(st)

\* cached_compile under the global strategy, first locked section: what the
\* lookup decides. "passthrough" (limit 0), "hit", or "miss".
global_lookup(st, key) ==
    IF st.cache_limit = 0 THEN "passthrough"
    ELSE IF mapping_get(st.pattern_cache, key) # NoValue THEN "hit"
    ELSE "miss"

\* a faulty variant: a key that is already present keeps its first value
global_insert_keep_first(st, key, value) ==
    IF DictHas(st.pattern_cache, key) THEN st
    ELSE LET before == IF st.cache_limit > 0 THEN global_cache_trim(st) ELSE st
             stored == [before EXCEPT
                          !.pattern_cache = mapping_set(@, key, value),
                          !.order = Append(@, key)]
         IN IF stored.cache_limit > 0 THEN global_cache_trim(stored) ELSE stored

\* the second locked section of cached_compile's global branch: trim, store
\* the value and append the key to the ledger, trim
global_insert(st, key, value) ==
    LET before == IF st.cache_limit > 0 THEN global_cache_trim(st) ELSE st
        stored == [before EXCEPT
                     !.pattern_cache = mapping_set(@, key, value),
                     !.order = Append(@, key)]
    IN IF stored.cache_limit > 0 THEN global_cache_trim(stored) ELSE stored

\* a faulty variant: a hit moves its key to the end of the ledger
global_cached_compile_promoting(st, key, ok, fresh) ==
    LET decision == global_lookup(st, key)
        built == IF ok THEN fresh ELSE NoValue
    IN IF decision = "passthrough"
       THEN [state |-> st, value |-> built, error |-> ~ok,
             compiled |-> TRUE, inserted |-> FALSE]
       ELSE IF decision = "hit"
       THEN [state |-> [st EXCEPT !.order = Append(@, key)],
             value |-> mapping_get(st.pattern_cache, key),
             error |-> FALSE, compiled |-> FALSE, inserted |-> FALSE]
       ELSE IF ~ok
       THEN [state |-> st, value |-> NoValue, error |-> TRUE,
             compiled |-> TRUE, inserted |-> FALSE]
       ELSE [state |-> global_insert(st, key, fresh), value |-> fresh,
             error |-> FALSE, compiled |-> TRUE, inserted |-> TRUE]

\* the whole of cached_compile under the global strategy, run by one thread
\* with no other thread in between
global_cached_compile(st, key, ok, fresh) ==
    LET decision == global_lookup(st, key)
        built == IF ok THEN fresh ELSE NoValue
    IN IF decision = "passthrough"
       THEN [state |-> st, value |-> built, error |-> ~ok,
             compiled |-> TRUE, inserted |-> FALSE]
       ELSE IF decision = "hit"
       THEN [state |-> st, value |-> mapping_get(st.pattern_cache, key),
             error |-> FALSE, compiled |-> FALSE, inserted |-> FALSE]
       ELSE IF ~ok
       THEN [state |-> st, value |-> NoValue, error |-> TRUE,
             compiled |-> TRUE, inserted |-> FALSE]
       ELSE [state |-> global_insert(st, key, fresh), value |-> fresh,
             error |-> FALSE, compiled |-> TRUE, inserted |-> TRUE]

\* a faulty variant: the error of the failed store reaches the caller
store_failure_raised(r, state) ==
    [r EXCEPT !.state = state, !.inserted = FALSE, !.value = NoValue, !.error = TRUE]

\* the answer of a cached_compile whose store into the cache failed: the
\* error is cleared and the compiled value returned; state is the cache as
\* the failed store left it
store_failure(r, state) == [r EXCEPT !.state = state, !.inserted = FALSE]

\* the thread-local branch of cached_compile; set_ok is the outcome of
\* mapping_set, which comes after room was made
thread_cached_compile_storing(entry0, key, ok, fresh, set_ok) ==
    LET r == thread_cached_compile(entry0, key, ok, fresh)
        entry == thread_cache_entry_get(entry0, TRUE)
        unstored == [entry EXCEPT !.pattern_cache =
                        IF entry.cache_limit > 0
                        THEN mapping_ensure_capacity(@, entry.cache_limit) ELSE @]
    IN IF r.inserted /\ ~set_ok THEN store_failure(r, unstored) ELSE r

\* the global branch of cached_compile; set_ok is the outcome of
\* PyDict_SetItem and append_ok that of PyList_Append, which is called after
\* a successful PyDict_SetItem only
global_cached_compile_storing(st, key, ok, fresh, set_ok, append_ok) ==
    LET r == global_cached_compile(st, key, ok, fresh)
        before == IF st.cache_limit > 0 THEN global_cache_trim(st) ELSE st
        stored == IF set_ok
                  THEN [before EXCEPT !.pattern_cache = mapping_set(@, key, fresh)]
                  ELSE before
        after == IF stored.cache_limit > 0 THEN global_cache_trim(stored) ELSE stored
    IN IF r.inserted /\ ~set_ok THEN store_failure(r, after)
       ELSE IF r.inserted /\ ~append_ok THEN [r EXCEPT !.state = after]
       ELSE r

\* set_cache_limit under the global strategy: the store of the limit, made
\* before the lock is taken
global_store_limit(st, limit) == [st EXCEPT !.cache_limit = limit]

\* set_cache_limit under the global strategy: the locked section
global_apply_limit(st, limit) ==
    IF limit = 0
    THEN [st EXCEPT !.pattern_cache = mapping_clear(@),
                    !.order = << >>, !.order_head = 0]
    ELSE IF limit > 0 THEN global_cache_trim(st)
    ELSE st

global_set_cache_limit(st, limit) ==
    global_apply_limit(global_store_limit(st, limit), limit)

\* clear_cache under the global strategy: the locked section
global_clear_cache(st) ==
    [st EXCEPT !.pattern_cache = mapping_clear(@),
               !.order = << >>, !.order_head = 0]

\* ----------------------------------------------------- scratch pools

\* a pool of cache.c: the linked list from its head, and the count and the
\* capacity kept beside it
EmptyPool(capacity) == [head |-> << >>, count |-> 0, capacity |-> capacity]

NoObject == [id |-> 0, ovec_count |-> 0, start |-> 0, max |-> 0]
MatchData(id, pairs) == [id |-> id, ovec_count |-> pairs, start |-> 0, max |-> 0]
JitStack(id, start, max) == [id |-> id, ovec_count |-> 0, start |-> start, max |-> max]

\* a ThreadCacheState as thread_cache_state_get_or_create allocates it
NewThreadState ==
    [exists |-> TRUE,
     match |-> EmptyPool(DEFAULT_THREAD_MATCH_CAPACITY),
     jit |-> EmptyPool(DEFAULT_THREAD_JIT_CAPACITY),
     jit_start_size |-> DEFAULT_JIT_START_SIZE,
     jit_max_size |-> DEFAULT_JIT_MAX_SIZE,
     match_context |-> 0, offset_match_context |-> 0]

AbsentThreadState == [NewThreadState EXCEPT !.exists = FALSE]

thread_cache_state_get_or_create(state) ==
    IF state.exists THEN state ELSE NewThreadState

\* the global pools as their static initialisers leave them
InitialGlobalPools ==
    [match |-> EmptyPool(DEFAULT_GLOBAL_MATCH_CAPACITY),
     jit |-> EmptyPool(DEFAULT_GLOBAL_JIT_CAPACITY),
     jit_start_size |-> DEFAULT_JIT_START_SIZE,
     jit_max_size |-> DEFAULT_JIT_MAX_SIZE]

\* the result of a pool operation: the pool afterwards, the object handed
\* out (NoObject when none) and the identities of the objects destroyed
PoolResult(pool, object, destroyed) ==
    [pool |-> pool, object |-> object, destroyed |-> destroyed]

Decrement(count) == IF count > 0 THEN count - 1 ELSE count

\* a faulty variant: the first node is unlinked instead of the last
cache_evict_head(pool) ==
    IF pool.head = << >> THEN PoolResult(pool, NoObject, {})
    ELSE PoolResult([pool EXCEPT !.head = Tail(@), !.count = Decrement(@)],
                    NoObject, {pool.head[1].id})

\* *_evict_tail: unlink and destroy the last node of the list
cache_evict_tail(pool) ==
    IF pool.head = << >> THEN PoolResult(pool, NoObject, {})
    ELSE PoolResult([pool EXCEPT !.head = SubSeq(@, 1, Len(@) - 1),
                                 !.count = Decrement(@)],
                    NoObject, {pool.head[Len(pool.head)].id})

\* a faulty variant: one eviction whatever the excess
cache_evict_once(pool, destroyed) ==
    IF pool.count > pool.capacity
    THEN LET r == cache_evict_tail(pool)
         IN PoolResult(r.pool, NoObject, destroyed \cup r.destroyed)
    ELSE PoolResult(pool, NoObject, destroyed)

RECURSIVE cache_evict_excess(_, _)
\* while (count > capacity) evict_tail
cache_evict_excess(pool, destroyed) ==
    IF pool.count > pool.capacity
    THEN LET r == cache_evict_tail(pool)
         IN cache_evict_excess(r.pool, destroyed \cup r.destroyed)
    ELSE PoolResult(pool, NoObject, destroyed)

\* *_free_all: destroy every node
cache_free_all(pool) ==
    PoolResult([pool EXCEPT !.head = << >>, !.count = 0], NoObject,
               {pool.head[i].id : i \in 1..Len(pool.head)})

RECURSIVE first_fit_strict(_, _, _)
\* a faulty variant: a node of exactly the required size is passed over
first_fit_strict(head, required_pairs, i) ==
    IF i > Len(head) THEN 0
    ELSE IF head[i].ovec_count > required_pairs THEN i
    ELSE first_fit_strict(head, required_pairs, i + 1)

RECURSIVE first_fit(_, _, _)
\* index of the first node with ovec_count >= required_pairs, 0 when none
first_fit(head, required_pairs, i) ==
    IF i > Len(head) THEN 0
    ELSE IF head[i].ovec_count >= required_pairs THEN i
    ELSE first_fit(head, required_pairs, i + 1)

\* required_pairs of *_match_data_cache_acquire: capture_count + 1 in uint32_t,
\* and 1 when that wraps to 0
required_pairs_of(capture_count) ==
    LET sum == (capture_count + 1) % WordModulus
    IN IF sum = 0 THEN 1 ELSE sum

\* *_match_data_cache_acquire up to the construction of a new block: the
\* first fitting node is unlinked; when none fits and the pool is full the
\* tail is evicted
match_data_cache_take(pool, required_pairs) ==
    IF pool.capacity = 0 THEN PoolResult(pool, NoObject, {})
    ELSE LET i == first_fit(pool.head, required_pairs, 1)
         IN IF i # 0
            THEN PoolResult([pool EXCEPT
                               !.head = SubSeq(@, 1, i - 1) \o SubSeq(@, i + 1, Len(@)),
                               !.count = Decrement(@)],
                            pool.head[i], {})
            ELSE IF pool.count >= pool.capacity THEN cache_evict_tail(pool)
            ELSE PoolResult(pool, NoObject, {})

\* a faulty variant: the head node is handed out and stays linked
jit_stack_cache_take_kept(pool) ==
    IF pool.head # << >>
    THEN PoolResult(pool, pool.head[1], {})
    ELSE PoolResult(pool, NoObject, {})

\* *_jit_stack_cache_acquire up to the construction of a new stack: the head
\* node, when there is one, is unlinked
jit_stack_cache_take(pool) ==
    IF pool.head # << >>
    THEN PoolResult([pool EXCEPT !.head = Tail(@), !.count = Decrement(@)],
                    pool.head[1], {})
    ELSE PoolResult(pool, NoObject, {})

\* a faulty variant: the released object is linked at the tail
cache_release_at_tail(pool, object, node_ok) ==
    IF pool.capacity = 0 \/ ~node_ok THEN PoolResult(pool, NoObject, {object.id})
    ELSE PoolResult([pool EXCEPT !.head = Append(@, object), !.count = @ + 1],
                    NoObject, {})

\* *_cache_release: with capacity 0, or when the node cannot be allocated,
\* the object is destroyed; else it is pushed at the head and the excess is
\* evicted from the tail
cache_release(pool, object, node_ok) ==
    IF pool.capacity = 0 \/ ~node_ok THEN PoolResult(pool, NoObject, {object.id})
    ELSE cache_evict_excess([pool EXCEPT !.head = <<object>> \o @,
                                         !.count = @ + 1], {})

\* module_set_*_cache_size: the capacity is the argument cast to uint32_t
cache_set_size(pool, size) ==
    cache_evict_excess([pool EXCEPT !.capacity = size % WordModulus], {})

\* match_context_cache_acquire: the slot of the kind asked for
match_context_slot(state, use_offset_limit) ==
    IF use_offset_limit THEN state.offset_match_context ELSE state.match_context

\* match_context_cache_acquire: *slot = context
match_context_slot_set(state, use_offset_limit, context) ==
    IF use_offset_limit THEN [state EXCEPT !.offset_match_context = context]
    ELSE [state EXCEPT !.match_context = context]

\* thread_match_data_cache_free_all also frees the thread's match contexts
thread_match_data_cache_free_all(state) ==
    [state EXCEPT !.match = cache_free_all(@).pool,
                  !.match_context = 0, !.offset_match_context = 0]

\* the match contexts thread_match_data_cache_free_all destroys; the global
\* free_all destroys none
thread_contexts_destroyed(strategy, state) ==
    IF strategy = CACHE_STRATEGY_THREAD_LOCAL
    THEN {state.match_context, state.offset_match_context} \ {0}
    ELSE {}

\* module_set_cache_strategy: the error it raises, or "none"
set_cache_strategy_error(current, locked, name) ==
    IF name \notin Strategies THEN "ValueError"
    ELSE IF locked /\ name # current THEN "RuntimeError"
    ELSE "none"

\* module_set_cache_strategy: cache_strategy afterwards
module_set_cache_strategy(current, locked, name) ==
    IF set_cache_strategy_error(current, locked, name) = "none"
    THEN name ELSE current

\* mark_cache_strategy_locked
mark_cache_strategy_locked(locked) == TRUE

\* a faulty variant: the order of start and max is not checked
jit_stack_limits_error_unordered(start, max) ==
    IF start = 0 \/ max = 0 THEN "ValueError"
    ELSE "none"

\* module_set_jit_stack_limits: the error it raises, or "none"
jit_stack_limits_error(start, max) ==
    IF start = 0 \/ max = 0 THEN "ValueError"
    ELSE IF start > max THEN "ValueError"
    ELSE "none"

\* a faulty variant: the pooled stacks are kept
jit_stack_limits_apply_keep(state, start, max) ==
    [state EXCEPT !.jit_start_size = start, !.jit_max_size = max]

\* module_set_jit_stack_limits past the argument checks: the sizes are stored
\* and every pooled stack is destroyed
jit_stack_limits_apply(state, start, max) ==
    [state EXCEPT !.jit = cache_free_all(@).pool, !.jit_start_size = start,
                  !.jit_max_size = max]

\* ------------------------------------------------------ strategy switch

\* is_truthy_env_flag: unset or empty is false, as is a first character of
\* 0, f, F, n or N
is_truthy_env_flag(value) ==
    IF value = EnvNull \/ value = << >> THEN FALSE
    ELSE value[1] \notin {"0", "f", "F", "n", "N"}

\* initialise_default_strategy: PYPCRE_CACHE_PATTERN_GLOBAL, and when that is
\* unset PCRE2_CACHE_PATTERN_GLOBAL
initialise_default_strategy(pypcre_env, pcre2_env) ==
    LET env == IF pypcre_env = EnvNull THEN pcre2_env ELSE pypcre_env
    IN IF is_truthy_env_flag(env) THEN CACHE_STRATEGY_GLOBAL
       ELSE CACHE_STRATEGY_THREAD_LOCAL

\* cache_strategy_fn with a strategy argument: the error it raises, or "none"
cache_strategy_error(current, locked, desired) ==
    IF desired \notin Strategies THEN "ValueError"
    ELSE IF desired = current THEN "none"
    ELSE IF locked THEN "RuntimeError"
    ELSE "none"

\* cache_strategy_fn without the test of CACHE_STRATEGY_LOCKED
cache_strategy_fn_unguarded(current, locked, desired) ==
    IF desired \in Strategies THEN desired ELSE current

\* cache_strategy_fn with a strategy argument: CURRENT_STRATEGY afterwards
cache_strategy_fn(current, locked, desired) ==
    IF cache_strategy_error(current, locked, desired) = "none"
    THEN desired ELSE current

\* lock_cache_strategy
lock_cache_strategy(locked) == TRUE

\* --------------------------------------------------------------- results

NoRet ==
    [op |-> "none", key |-> PyNone, value |-> NoValue, error |-> "none",
     compiled |-> FALSE, inserted |-> FALSE, limit |-> -1, strategy |-> "none"]

CompileRet(key, r) ==
    [NoRet EXCEPT !.op = "cached_compile", !.key = key, !.value = r.value,
                  !.error = IF r.error THEN "compile" ELSE "none",
                  !.compiled = r.compiled, !.inserted = r.inserted]

\* set_cache_limit's argument: None, or an integer
NoneArg == [none |-> TRUE, n |-> 0]
IntArg(n) == [none |-> FALSE, n |-> n]
LimitArgValues == {NoneArg} \cup {IntArg(n) : n \in -1..MaxLimit}

\* set_cache_limit's parse of its argument: None is -1 (unbounded)
parse_limit(arg) == IF arg.none THEN -1 ELSE arg.n
parse_limit_error(arg) == IF ~arg.none /\ arg.n < 0 THEN "ValueError" ELSE "none"

\* the dict cached_compile, set_cache_limit and clear_cache work on
ActiveCache(strategy, entries, st, t) ==
    IF strategy = CACHE_STRATEGY_THREAD_LOCAL
    THEN entries[t].pattern_cache
    ELSE st.pattern_cache

\* the capacity in force for that dict
ActiveLimit(strategy, entries, st, t) ==
    IF strategy = CACHE_STRATEGY_THREAD_LOCAL
    THEN entries[t].cache_limit
    ELSE st.cache_limit

\* missLog keeps the most recent MaxLimit inserted keys, newest last
LogInsert(log, key) ==
    LET all == Append(log, key)
    IN IF Len(all) > MaxLimit THEN Tail(all) ELSE all

\* the locks of cache.c and the lock of GLOBAL_STATE_OBJ
StateLock == "cache_state_lock"
MatchLock == "global_match_lock"
JitLock == "global_jit_lock"
PatternLock == "pattern_cache_lock"
NoLock == "none"
PoolLocks == {StateLock, MatchLock, JitLock}
\* the thread-state key of cache.c
CacheTss == "cache_tss"
\* what cache_initialize creates and cache_teardown destroys
ResourceNames == {CacheTss} \cup PoolLocks

\* a thread outside every operation
NoFrame == [op |-> "none", steps |-> << >>, inside |-> FALSE,
            strategy |-> "none", key |-> PyNone, object |-> NoObject, n |-> 0]

\* a section of an operation: what it does, the lock it runs under, and for
\* a section of cache.c the pool it is about and the function that follows
\* the strategy read
Step(body, lock, pool, then) ==
    [body |-> body, lock |-> lock, pool |-> pool, then |-> then]

\* the lock the sections of pattern_cache.c run under: state->lock in the
\* global branch, none in the thread-local branch
pattern_section_unlocked(strategy) == NoLock

pattern_section_lock(strategy) ==
    IF strategy = CACHE_STRATEGY_GLOBAL THEN PatternLock ELSE NoLock

\* the lock the list sections of cache.c run under: the pool's own lock in
\* the global_* functions, none in the thread_* functions
pool_section_always_locked(strategy, pool) ==
    IF pool = "match" THEN MatchLock ELSE JitLock

pool_section_lock(strategy, pool) ==
    IF strategy = CACHE_STRATEGY_GLOBAL
    THEN IF pool = "match" THEN MatchLock ELSE JitLock
    ELSE NoLock

\* the sections of a function of cache.c after its cache_strategy_get():
\* thread_cache_state_get_or_create asks cache_tss_is_created for a thread
\* without state; an acquire constructs outside the lock
pool_program(then, strategy, exists, pool) ==
    LET lock == pool_section_lock(strategy, pool)
        tss == IF strategy = CACHE_STRATEGY_THREAD_LOCAL /\ ~exists
               THEN <<Step("tss_is_created", StateLock, pool, "none")>>
               ELSE << >>
    IN IF then = "take"
       THEN tss \o <<Step("take", lock, pool, "none"),
                     Step("create", NoLock, pool, "none")>>
       ELSE IF then = "release" THEN <<Step("release", lock, pool, "none")>>
       ELSE tss \o <<Step(then, lock, pool, "none")>>

\* the sections an operation starts with
program_of(op, strategy) ==
    LET lock == pattern_section_lock(strategy)
        local == strategy = CACHE_STRATEGY_THREAD_LOCAL
        mark == Step("mark_locked", StateLock, "none", "none")
    IN CASE op = "cached_compile" ->
              IF local THEN <<Step("thread_compile", lock, "none", "none")>>
              ELSE <<Step("lookup", lock, "none", "none")>>
         [] op = "set_cache_limit" ->
              IF local THEN <<Step("thread_set_limit", lock, "none", "none")>>
              ELSE <<Step("store_limit", NoLock, "none", "none"),
                     Step("apply_limit", lock, "none", "none")>>
         [] op = "clear_cache" ->
              <<Step(IF local THEN "thread_clear" ELSE "clear_patterns", lock,
                     "none", "none"),
                Step("get_strategy", StateLock, "match", "clear"),
                Step("get_strategy", StateLock, "jit", "clear")>>
         [] op = "match_data_acquire" ->
              <<mark, Step("get_strategy", StateLock, "match", "take")>>
         [] op = "match_data_release" ->
              <<mark, Step("get_strategy", StateLock, "match", "release")>>
         [] op = "jit_stack_acquire" ->
              <<mark, Step("get_strategy", StateLock, "jit", "take")>>
         [] op = "jit_stack_release" ->
              <<mark, Step("get_strategy", StateLock, "jit", "release")>>
         [] op = "set_match_data_cache_size" ->
              <<Step("get_strategy", StateLock, "match", "set_size")>>
         [] op = "set_jit_stack_cache_size" ->
              <<Step("get_strategy", StateLock, "jit", "set_size")>>
         [] op = "clear_match_data_cache" ->
              <<Step("get_strategy", StateLock, "match", "clear")>>
         [] op = "clear_jit_stack_cache" ->
              <<Step("get_strategy", StateLock, "jit", "clear")>>

\* the result of a cache.c operation
NoPoolRet == [op |-> "none", object |-> 0, reused |-> FALSE, error |-> "none",
              strategy |-> "none"]

NoCall == [pc |-> "idle", key |-> PyNone, value |-> NoValue, limit |-> -1]

Idle(t) == call[t].pc = "idle"

\* ------------------------------------------------- sparse hash (hash.c)

HashBits == 8           \* bits of uint64_t / Py_hash_t kept (64 in the code, at most 16 here)
MaxHashLen == 4         \* longest argument of sparse_half_hash
MaxKeyLen == 2          \* longest pattern of a cache key
NumCopies == 2          \* distinct objects with the same type and content

\* the low 16 bits of 0xcbf29ce484222325 and of 0x100000001b3: XOR and
\* multiplication modulo 2^64 commute with taking the low bits, so a hash
\* computed here is the low HashBits bits of the hash the code computes
FNV64_OFFSET == 8997
FNV64_PRIME == 435
PY_SSIZE_T_MAX == 2147483647

HashModulus == 2 ^ HashBits
Word(x) == x % HashModulus
\* (Py_hash_t)-1, the value CPython reserves for errors
MinusOne == HashModulus - 1

RECURSIVE Xor(_, _)
Xor(a, b) ==
    IF a = 0 THEN b
    ELSE IF b = 0 THEN a
    ELSE ((a + b) % 2) + 2 * Xor(a \div 2, b \div 2)

\* an object a caller passes as pattern or as hash argument: its type, its
\* content (code points, bytes, or the one value of an int) and which of the
\* equal objects it is; two records are the same object iff they are equal
Alphabet == {97, 98}
Contents(n) == UNION {[1..len -> Alphabet] : len \in 0..n}
TextKinds == {"str"}
BufferKinds == {"bytes", "bytearray"}
ObjectsUpTo(n) ==
    [kind : TextKinds \cup BufferKinds, data : Contents(n), copy : 1..NumCopies]
    \cup [kind : {"int"}, data : {<<v>> : v \in Alphabet}, copy : 1..NumCopies]
NoPattern == [kind |-> "none", data |-> << >>, copy |-> 0]

RECURSIVE stride_loop(_, _)
stride_loop(length, stride) ==
    IF length \div stride > 8
    THEN IF stride > PY_SSIZE_T_MAX \div 2 THEN stride
         ELSE stride_loop(length, stride * 2)
    ELSE stride

\* a faulty variant: the stride is never doubled
compute_sparse_stride_fixed(length) == 2

compute_sparse_stride(length) == stride_loop(length, 2)

\* the sampling loop: data[index] (counted from 0) is mixed in, then every
\* stride-th element after it
RECURSIVE fnv_mix(_, _, _, _)
fnv_mix(hash, data, index, stride) ==
    IF index >= Len(data) THEN hash
    ELSE fnv_mix(Word(Xor(hash, Word(data[index + 1])) * FNV64_PRIME),
                 data, index + stride, stride)

fnv_mix_sparse_bytes(data, stride) ==
    fnv_mix(Word(FNV64_OFFSET), data, stride - 1, stride)

fnv_mix_sparse_unicode(data, stride) ==
    fnv_mix(Word(FNV64_OFFSET), data, stride - 1, stride)

\* the end of pcre_sparse_hash_object: the length is folded in and -1 avoided
sparse_hash_finish(hash, length) ==
    LET folded == Word(Xor(hash, length \div 32))
    IN IF folded = MinusOne THEN MinusOne - 1 ELSE folded

\* a faulty variant: elements are mixed whatever the length
pcre_sparse_hash_object_eager(arg) ==
    IF arg.kind \in TextKinds
    THEN [error |-> 0,
          result |-> sparse_hash_finish(fnv_mix_sparse_unicode(arg.data, 1),
                                        Len(arg.data))]
    ELSE IF arg.kind \notin BufferKinds
    THEN [error |-> -1, result |-> 0]
    ELSE [error |-> 0,
          result |-> sparse_hash_finish(fnv_mix_sparse_bytes(arg.data, 1),
                                        Len(arg.data))]

pcre_sparse_hash_object(arg) ==
    IF arg.kind \in TextKinds
    THEN LET length == Len(arg.data)
             hash == IF length > 1
                     THEN fnv_mix_sparse_unicode(arg.data, compute_sparse_stride(length))
                     ELSE Word(FNV64_OFFSET)
         IN [error |-> 0, result |-> sparse_hash_finish(hash, length)]
    ELSE IF arg.kind \notin BufferKinds
    THEN [error |-> -1, result |-> 0]
    ELSE LET length == Len(arg.data)
             hash == IF length > 1
                     THEN fnv_mix_sparse_bytes(arg.data, compute_sparse_stride(length))
                     ELSE Word(FNV64_OFFSET)
         IN [error |-> 0, result |-> sparse_hash_finish(hash, length)]

\* sparse_half_hash(arg) as Python sees it
module_sparse_half_hash(arg) ==
    LET r == pcre_sparse_hash_object(arg)
    IN IF r.error # 0
       THEN [arg |-> arg, error |-> "TypeError", value |-> 0]
       ELSE [arg |-> arg, error |-> "none", value |-> r.result]

NoHashCall == [arg |-> NoPattern, error |-> "none", value |-> 0]

\* ------------------------------------------------ cache keys (cache_key.c)

KeyFlags == {0, 1}
KeySlots == 1..2
Py_EQ == "Py_EQ"
Py_NE == "Py_NE"
Py_LT == "Py_LT"
CompareOps == {Py_EQ, Py_NE, Py_LT}

\* hash(object) of an object that is no text and no buffer: an int hashes to
\* its value
PyObject_Hash(object) ==
    LET h == Word(object.data[1])
    IN IF h = MinusOne THEN MinusOne - 1 ELSE h

\* object == other by value: text equals text, bytes-like objects equal each
\* other, ints equal ints, each by content
PyObject_RichCompareBool(object, other) ==
    /\ \/ object.kind \in BufferKinds /\ other.kind \in BufferKinds
       \/ object.kind = other.kind
    /\ object.data = other.data

compute_key_hash(pattern, flags, jit) ==
    LET sparse == pattern.kind \in TextKinds \cup BufferKinds
        r == pcre_sparse_hash_object(pattern)
        base_hash == IF sparse THEN r.result ELSE PyObject_Hash(pattern)
        combined == Xor(Xor(base_hash, Word(flags * 2)), jit)
    IN IF sparse /\ r.error # 0 THEN [error |-> TRUE, hash |-> MinusOne]
       ELSE [error |-> FALSE,
             hash |-> IF combined = MinusOne THEN MinusOne - 1 ELSE combined]

\* SparseCacheKey(pattern, flags, jit): the object, its hash fixed at construction
SparseCacheKey_new(pattern, flags, jit) ==
    [type |-> "SparseCacheKey", pattern |-> pattern, flags |-> flags,
     jit |-> IF jit THEN 1 ELSE 0,
     hash_value |-> compute_key_hash(pattern, flags, IF jit THEN 1 ELSE 0).hash]

SparseCacheKey_hash(self) == self.hash_value

NoKey == [type |-> "none", pattern |-> NoPattern, flags |-> 0, jit |-> 0,
          hash_value |-> 0]
\* an operand of == that is no SparseCacheKey
NotAKey == [type |-> "object", pattern |-> NoPattern, flags |-> 0, jit |-> 0,
            hash_value |-> 0]

\* a faulty variant: keys with equal hash, flags and jit are taken as equal
SparseCacheKey_equal_by_hash(a, b) ==
    a.hash_value = b.hash_value /\ a.flags = b.flags /\ a.jit = b.jit

\* the `equal` SparseCacheKey_richcompare computes for two keys
SparseCacheKey_equal(a, b) ==
    IF a.hash_value = b.hash_value /\ a.flags = b.flags /\ a.jit = b.jit
    THEN IF a.pattern = b.pattern THEN TRUE
         ELSE PyObject_RichCompareBool(a.pattern, b.pattern)
    ELSE FALSE

SparseCacheKey_richcompare(self, other, op) ==
    IF self.type # "SparseCacheKey" \/ other.type # "SparseCacheKey"
    THEN "NotImplemented"
    ELSE IF op \notin {Py_EQ, Py_NE} THEN "NotImplemented"
    ELSE IF op = Py_EQ
    THEN IF SparseCacheKey_equal(self, other) THEN "True" ELSE "False"
    ELSE IF SparseCacheKey_equal(self, other) THEN "False" ELSE "True"

NoCompare == [self |-> NoKey, other |-> NoKey, op |-> "none", result |-> "none"]

\* ----------------------------------------------------------------- Init

\* the module after import, the strategy of the pools apart
Loaded ==
    /\ \E pypcre_env \in EnvValues, pcre2_env \in EnvValues :
          CURRENT_STRATEGY = initialise_default_strategy(pypcre_env, pcre2_env)
    /\ CACHE_STRATEGY_LOCKED = FALSE
    /\ threadEntry = [t \in Threads |-> AbsentEntry]
    /\ gstate = InitialGlobalState
    /\ glock = NoThread
    /\ call = [t \in Threads |-> NoCall]
    /\ constructed = 0
    /\ ret = [t \in Threads |-> NoRet]
    /\ missLog = << >>
    /\ lastRet = [k \in Keys |-> NoValue]
    /\ cache_strategy_locked = FALSE
    /\ tstate = [t \in Threads |-> IF t = MainThread THEN NewThreadState
                                    ELSE AbsentThreadState]
    /\ gpool = InitialGlobalPools
    /\ held = [t \in Threads |-> {}]
    /\ freed = {}
    /\ made = 0
    /\ pret = [t \in Threads |-> NoPoolRet]
    /\ context_cache_enabled = TRUE
    /\ ctxSeen = [t \in Threads |-> [kind \in BOOLEAN |-> 0]]
    /\ lent = [t \in Threads |-> {}]
    /\ frame = [t \in Threads |-> NoFrame]
    /\ plocks = [lock \in PoolLocks |-> NoThread]
    /\ compared = NoCompare
    /\ hashed = NoHashCall
    /\ exited = {}
    /\ handle = [r \in ResourceNames |-> TRUE]
    /\ deleted = {}
    /\ misuse = {}

\* the state after import: the pools of cache.c start thread-local
Init ==
    /\ Loaded
    /\ cache_strategy = CACHE_STRATEGY_THREAD_LOCAL
    /\ keys = [slot \in KeySlots |-> NoKey]

\* ------------------------------------- operations, run without interleaving

\* the pools cache.c dispatches to under a strategy: the calling thread's
\* state, created on demand, or the global pools
ScratchState(strategy, t) ==
    IF strategy = CACHE_STRATEGY_THREAD_LOCAL
    THEN thread_cache_state_get_or_create(tstate[t]) ELSE gpool

\* a faulty variant: the state is stored for every thread
StoreScratch_every_thread(strategy, t, state) ==
    IF strategy = CACHE_STRATEGY_THREAD_LOCAL
    THEN tstate' = [u \in Threads |-> state] /\ UNCHANGED gpool
    ELSE gpool' = state /\ UNCHANGED tstate

\* the operation has left the dispatched pools as state
StoreScratch(strategy, t, state) ==
    IF strategy = CACHE_STRATEGY_THREAD_LOCAL
    THEN tstate' = [tstate EXCEPT ![t] = state] /\ UNCHANGED gpool
    ELSE gpool' = state /\ UNCHANGED tstate

\* cached_compile(pattern, flags, wrapper, jit=...) under the thread-local strategy
ThreadCachedCompile(t, key, ok) ==
    /\ Idle(t)
    /\ CURRENT_STRATEGY = CACHE_STRATEGY_THREAD_LOCAL
    /\ LET r == thread_cached_compile(threadEntry[t], key, ok, constructed + 1)
       IN /\ r.value = constructed + 1 => constructed < MaxCompiles
          /\ CACHE_STRATEGY_LOCKED' = lock_cache_strategy(CACHE_STRATEGY_LOCKED)
          /\ threadEntry' = [threadEntry EXCEPT ![t] = r.state]
          /\ constructed' = IF r.value = constructed + 1 THEN constructed + 1 ELSE constructed
          /\ ret' = [ret EXCEPT ![t] = CompileRet(key, r)]
    /\ UNCHANGED <<poolVars, auxVars>>
    /\ UNCHANGED <<CURRENT_STRATEGY, gstate, glock, call>>

\* cached_compile under the global strategy
GlobalCachedCompile(t, key, ok) ==
    /\ Idle(t)
    /\ CURRENT_STRATEGY = CACHE_STRATEGY_GLOBAL
    /\ glock = NoThread
    /\ LET r == global_cached_compile(gstate, key, ok, constructed + 1)
       IN /\ r.value = constructed + 1 => constructed < MaxCompiles
          /\ CACHE_STRATEGY_LOCKED' = lock_cache_strategy(CACHE_STRATEGY_LOCKED)
          /\ gstate' = r.state
          /\ constructed' = IF r.value = constructed + 1 THEN constructed + 1 ELSE constructed
          /\ ret' = [ret EXCEPT ![t] = CompileRet(key, r)]
    /\ UNCHANGED <<poolVars, auxVars>>
    /\ UNCHANGED <<CURRENT_STRATEGY, threadEntry, glock, call>>

\* set_cache_limit(value)
SetCacheLimit(t, arg) ==
    /\ Idle(t)
    /\ glock = NoThread
    /\ LET limit == parse_limit(arg)
           error == parse_limit_error(arg)
       IN /\ ret' = [ret EXCEPT ![t] =
                       [NoRet EXCEPT !.op = "set_cache_limit", !.limit = limit,
                                     !.error = error]]
          /\ IF error # "none"
             THEN UNCHANGED <<threadEntry, gstate>>
             ELSE /\ IF CURRENT_STRATEGY = CACHE_STRATEGY_THREAD_LOCAL
                     THEN /\ threadEntry' = [threadEntry EXCEPT ![t] =
                                   thread_set_cache_limit(threadEntry[t], limit)]
                          /\ UNCHANGED gstate
                     ELSE /\ gstate' = global_set_cache_limit(gstate, limit)
                          /\ UNCHANGED threadEntry
    /\ UNCHANGED <<poolVars, auxVars>>
    /\ UNCHANGED <<CURRENT_STRATEGY, CACHE_STRATEGY_LOCKED, glock, call, constructed>>

\* clear_cache(): the pattern cache of the strategy in force, then the
\* backend's clear_match_data_cache() and clear_jit_stack_cache()
ClearCache(t) ==
    LET state == ScratchState(cache_strategy, t)
        rm == cache_free_all(state.match)
        rj == cache_free_all(state.jit)
    IN /\ Idle(t)
       /\ glock = NoThread
       /\ IF CURRENT_STRATEGY = CACHE_STRATEGY_THREAD_LOCAL
          THEN /\ threadEntry' = [threadEntry EXCEPT ![t] = thread_clear_cache(threadEntry[t])]
               /\ UNCHANGED gstate
          ELSE /\ gstate' = global_clear_cache(gstate)
               /\ UNCHANGED threadEntry
       /\ StoreScratch(cache_strategy, t,
                       IF cache_strategy = CACHE_STRATEGY_THREAD_LOCAL
                       THEN [thread_match_data_cache_free_all(state) EXCEPT !.jit = rj.pool]
                       ELSE [state EXCEPT !.match = rm.pool, !.jit = rj.pool])
       /\ freed' = freed \cup rm.destroyed \cup rj.destroyed
                        \cup thread_contexts_destroyed(cache_strategy, state)
       /\ ret' = [ret EXCEPT ![t] = [NoRet EXCEPT !.op = "clear_cache"]]
       /\ UNCHANGED <<CURRENT_STRATEGY, CACHE_STRATEGY_LOCKED, glock, call, constructed,
                      cache_strategy, cache_strategy_locked, held, made, pret,
                      auxVars>>

\* cache_strategy(strategy)
CacheStrategyFn(t, desired) ==
    /\ Idle(t)
    /\ CURRENT_STRATEGY' = cache_strategy_fn(CURRENT_STRATEGY, CACHE_STRATEGY_LOCKED, desired)
    /\ ret' = [ret EXCEPT ![t] =
                 [NoRet EXCEPT !.op = "cache_strategy", !.strategy = desired,
                               !.error = cache_strategy_error(CURRENT_STRATEGY,
                                             CACHE_STRATEGY_LOCKED, desired)]]
    /\ UNCHANGED <<poolVars, auxVars>>
    /\ UNCHANGED <<CACHE_STRATEGY_LOCKED, threadEntry, gstate, glock, call,
                   constructed>>

\* --------------------------------------- scratch-pool operations (cache.c)

\* match_data_cache_acquire(pattern): a pooled block that fits, or a new one
MatchDataAcquire(t, capture_count, create_ok) ==
    LET state == ScratchState(cache_strategy, t)
        required_pairs == required_pairs_of(capture_count)
        r == match_data_cache_take(state.match, required_pairs)
        reused == r.object # NoObject
        object == IF reused THEN r.object
                  ELSE IF create_ok THEN MatchData(made + 1, required_pairs)
                  ELSE NoObject
    IN /\ Idle(t)
       /\ ~reused /\ create_ok => made < MaxObjects
       /\ cache_strategy_locked' = mark_cache_strategy_locked(cache_strategy_locked)
       /\ StoreScratch(cache_strategy, t, [state EXCEPT !.match = r.pool])
       /\ made' = IF ~reused /\ create_ok THEN made + 1 ELSE made
       /\ held' = IF object = NoObject THEN held
                  ELSE [held EXCEPT ![t] = @ \cup {object}]
       /\ freed' = freed \cup r.destroyed
       /\ pret' = [pret EXCEPT ![t] =
                     [NoPoolRet EXCEPT !.op = "match_data_acquire",
                                       !.object = object.id, !.reused = reused]]
       /\ UNCHANGED <<patternVars, auxVars>>
       /\ UNCHANGED cache_strategy

\* match_data_cache_release(match_data)
MatchDataRelease(t, object, node_ok) ==
    LET exists == cache_strategy = CACHE_STRATEGY_GLOBAL \/ tstate[t].exists
        state == IF cache_strategy = CACHE_STRATEGY_THREAD_LOCAL
                 THEN tstate[t] ELSE gpool
        r == IF exists THEN cache_release(state.match, object, node_ok)
             ELSE PoolResult(state.match, NoObject, {object.id})
    IN /\ Idle(t)
       /\ object \in held[t] /\ object.ovec_count > 0
       /\ cache_strategy_locked' = mark_cache_strategy_locked(cache_strategy_locked)
       /\ StoreScratch(cache_strategy, t, [state EXCEPT !.match = r.pool])
       /\ held' = [held EXCEPT ![t] = @ \ {object}]
       /\ freed' = freed \cup r.destroyed
       /\ pret' = [pret EXCEPT ![t] =
                     [NoPoolRet EXCEPT !.op = "match_data_release",
                                       !.object = object.id]]
       /\ UNCHANGED <<patternVars, auxVars>>
       /\ UNCHANGED <<cache_strategy, made>>

\* jit_stack_cache_acquire(): the pool's head, or a new stack of the
\* configured sizes
JitStackAcquire(t, create_ok) ==
    LET state == ScratchState(cache_strategy, t)
        r == jit_stack_cache_take(state.jit)
        reused == r.object # NoObject
        object == IF reused THEN r.object
                  ELSE IF create_ok
                  THEN JitStack(made + 1, state.jit_start_size, state.jit_max_size)
                  ELSE NoObject
    IN /\ Idle(t)
       /\ ~reused /\ create_ok => made < MaxObjects
       /\ cache_strategy_locked' = mark_cache_strategy_locked(cache_strategy_locked)
       /\ StoreScratch(cache_strategy, t, [state EXCEPT !.jit = r.pool])
       /\ made' = IF ~reused /\ create_ok THEN made + 1 ELSE made
       /\ held' = IF object = NoObject THEN held
                  ELSE [held EXCEPT ![t] = @ \cup {object}]
       /\ freed' = freed \cup r.destroyed
       /\ pret' = [pret EXCEPT ![t] =
                     [NoPoolRet EXCEPT !.op = "jit_stack_acquire",
                                       !.object = object.id, !.reused = reused]]
       /\ UNCHANGED <<patternVars, auxVars>>
       /\ UNCHANGED cache_strategy

\* jit_stack_cache_release(jit_stack)
JitStackRelease(t, object, node_ok) ==
    LET exists == cache_strategy = CACHE_STRATEGY_GLOBAL \/ tstate[t].exists
        state == IF cache_strategy = CACHE_STRATEGY_THREAD_LOCAL
                 THEN tstate[t] ELSE gpool
        r == IF exists THEN cache_release(state.jit, object, node_ok)
             ELSE PoolResult(state.jit, NoObject, {object.id})
    IN /\ Idle(t)
       /\ object \in held[t] /\ object.ovec_count = 0
       /\ cache_strategy_locked' = mark_cache_strategy_locked(cache_strategy_locked)
       /\ StoreScratch(cache_strategy, t, [state EXCEPT !.jit = r.pool])
       /\ held' = [held EXCEPT ![t] = @ \ {object}]
       /\ freed' = freed \cup r.destroyed
       /\ pret' = [pret EXCEPT ![t] =
                     [NoPoolRet EXCEPT !.op = "jit_stack_release",
                                       !.object = object.id]]
       /\ UNCHANGED <<patternVars, auxVars>>
       /\ UNCHANGED <<cache_strategy, made>>

\* set_match_data_cache_size(size): the "k" format takes any integer without
\* an overflow check
SetMatchDataCacheSize(t, size) ==
    LET state == ScratchState(cache_strategy, t)
        r == cache_set_size(state.match, size)
    IN /\ Idle(t)
       /\ StoreScratch(cache_strategy, t, [state EXCEPT !.match = r.pool])
       /\ freed' = freed \cup r.destroyed
       /\ pret' = [pret EXCEPT ![t] = [NoPoolRet EXCEPT !.op = "set_match_data_cache_size"]]
       /\ UNCHANGED <<patternVars, auxVars>>
       /\ UNCHANGED <<cache_strategy, cache_strategy_locked, held, made>>

\* set_jit_stack_cache_size(size)
SetJitStackCacheSize(t, size) ==
    LET state == ScratchState(cache_strategy, t)
        r == cache_set_size(state.jit, size)
    IN /\ Idle(t)
       /\ StoreScratch(cache_strategy, t, [state EXCEPT !.jit = r.pool])
       /\ freed' = freed \cup r.destroyed
       /\ pret' = [pret EXCEPT ![t] = [NoPoolRet EXCEPT !.op = "set_jit_stack_cache_size"]]
       /\ UNCHANGED <<patternVars, auxVars>>
       /\ UNCHANGED <<cache_strategy, cache_strategy_locked, held, made>>

\* clear_match_data_cache()
ClearMatchDataCache(t) ==
    LET state == ScratchState(cache_strategy, t)
        r == cache_free_all(state.match)
    IN /\ Idle(t)
       /\ StoreScratch(cache_strategy, t,
                       IF cache_strategy = CACHE_STRATEGY_THREAD_LOCAL
                       THEN thread_match_data_cache_free_all(state)
                       ELSE [state EXCEPT !.match = r.pool])
       /\ freed' = freed \cup r.destroyed
                        \cup thread_contexts_destroyed(cache_strategy, state)
       /\ pret' = [pret EXCEPT ![t] = [NoPoolRet EXCEPT !.op = "clear_match_data_cache"]]
       /\ UNCHANGED <<patternVars, auxVars>>
       /\ UNCHANGED <<cache_strategy, cache_strategy_locked, held, made>>

\* clear_jit_stack_cache()
ClearJitStackCache(t) ==
    LET state == ScratchState(cache_strategy, t)
        r == cache_free_all(state.jit)
    IN /\ Idle(t)
       /\ StoreScratch(cache_strategy, t, [state EXCEPT !.jit = r.pool])
       /\ freed' = freed \cup r.destroyed
       /\ pret' = [pret EXCEPT ![t] = [NoPoolRet EXCEPT !.op = "clear_jit_stack_cache"]]
       /\ UNCHANGED <<patternVars, auxVars>>
       /\ UNCHANGED <<cache_strategy, cache_strategy_locked, held, made>>

\* set_jit_stack_limits(start, max): on success the sizes are stored and
\* every pooled stack is destroyed
SetJitStackLimits(t, start, max) ==
    LET state == ScratchState(cache_strategy, t)
        r == cache_free_all(state.jit)
        error == jit_stack_limits_error(start, max)
    IN /\ Idle(t)
       /\ IF error # "none"
          THEN UNCHANGED <<tstate, gpool, freed>>
          ELSE /\ StoreScratch(cache_strategy, t,
                                jit_stack_limits_apply(state, start, max))
               /\ freed' = freed \cup r.destroyed
       /\ pret' = [pret EXCEPT ![t] =
                     [NoPoolRet EXCEPT !.op = "set_jit_stack_limits", !.error = error]]
       /\ UNCHANGED <<patternVars, auxVars>>
       /\ UNCHANGED <<cache_strategy, cache_strategy_locked, held, made>>

\* set_cache_strategy(name) of cache.c
ModuleSetCacheStrategy(t, name) ==
    /\ Idle(t)
    /\ cache_strategy' = module_set_cache_strategy(cache_strategy,
                                                   cache_strategy_locked, name)
    /\ pret' = [pret EXCEPT ![t] =
                  [NoPoolRet EXCEPT !.op = "set_cache_strategy", !.strategy = name,
                      !.error = set_cache_strategy_error(cache_strategy,
                                    cache_strategy_locked, name)]]
    /\ UNCHANGED <<patternVars, auxVars>>
    /\ UNCHANGED <<cache_strategy_locked, tstate, gpool, held, freed, made>>

\* match_context_cache_acquire(use_offset_limit): a new context when the
\* cache is disabled, else the thread's slot of that kind, filled on demand
MatchContextAcquire(t, use_offset_limit, create_ok) ==
    LET state == thread_cache_state_get_or_create(tstate[t])
        slot == match_context_slot(state, use_offset_limit)
        create == ~context_cache_enabled \/ slot = NoValue
        context == IF ~create THEN slot
                   ELSE IF create_ok THEN made + 1 ELSE NoValue
    IN /\ Idle(t)
       /\ create /\ create_ok => made < MaxObjects
       /\ tstate' = IF ~context_cache_enabled THEN tstate
                    ELSE [tstate EXCEPT ![t] =
                            match_context_slot_set(state, use_offset_limit, context)]
       /\ made' = IF create /\ create_ok THEN made + 1 ELSE made
       /\ lent' = IF context = NoValue THEN lent
                  ELSE [lent EXCEPT ![t] = @ \cup {context}]
       /\ pret' = [pret EXCEPT ![t] =
                     [NoPoolRet EXCEPT !.op = "match_context_acquire",
                                       !.object = context, !.reused = ~create,
                                       !.error = IF context = NoValue
                                                 THEN "MemoryError" ELSE "none"]]
       /\ UNCHANGED <<patternVars, context_cache_enabled, frame, plocks>>
       /\ UNCHANGED <<cache_strategy, cache_strategy_locked, gpool, held, freed>>

\* match_context_cache_release(context, had_offset_limit): the context is
\* reset, and freed when the cache is disabled
MatchContextRelease(t, context) ==
    /\ Idle(t)
    /\ context \in lent[t]
    /\ lent' = [lent EXCEPT ![t] = @ \ {context}]
    /\ freed' = IF context_cache_enabled THEN freed ELSE freed \cup {context}
    /\ pret' = [pret EXCEPT ![t] =
                  [NoPoolRet EXCEPT !.op = "match_context_release", !.object = context]]
    /\ UNCHANGED <<patternVars, context_cache_enabled, frame, plocks>>
    /\ UNCHANGED <<cache_strategy, cache_strategy_locked, tstate, gpool, held, made>>

\* cache_set_context_cache_enabled(enabled)
SetContextCacheEnabled(enabled) ==
    /\ context_cache_enabled' = enabled
    /\ UNCHANGED <<patternVars, poolVars, lent, frame, plocks>>

\* ------------------------------------------------------------- history

\* the call has changed the capacity or cleared the cache
Resets(r) ==
    \/ r.op = "clear_cache"
    \/ r.op = "set_cache_limit" /\ r.error = "none"

\* missLog after the step in which thread t returned ret'[t]
TrackInserts(t) ==
    LET r == ret'[t]
    IN missLog' = IF Resets(r) THEN << >>
                  ELSE IF r.op = "cached_compile" /\ r.inserted
                  THEN LogInsert(missLog, r.key)
                  ELSE missLog

\* lastRet after the step in which thread t returned ret'[t]: the value a
\* cached_compile returned for its key is remembered until that key is
\* evicted, the cache is cleared or the capacity is set; a value returned
\* while the capacity is 0 is not remembered
TrackReturns(t) ==
    LET r == ret'[t]
        before == DictKeySet(ActiveCache(CURRENT_STRATEGY, threadEntry, gstate, t))
        after == DictKeySet(ActiveCache(CURRENT_STRATEGY', threadEntry', gstate', t))
        limit == ActiveLimit(CURRENT_STRATEGY', threadEntry', gstate', t)
    IN lastRet' = IF Resets(r) THEN [k \in Keys |-> NoValue]
                  ELSE IF r.op = "cached_compile"
                  THEN [j \in Keys |->
                          IF j = r.key THEN (IF limit = 0 THEN NoValue ELSE r.value)
                          ELSE IF j \in before \ after THEN NoValue
                          ELSE lastRet[j]]
                  ELSE lastRet

\* ---------------------------------------------------------- specifications

\* the keys one thread compiles: a pattern with and without jit, and a
\* second pattern
CallKeys == {key \in Keys : key[1] = 1 \/ ~key[3]}

\* one calling thread
Calls(t) ==
    \/ \E key \in CallKeys, ok \in BOOLEAN : ThreadCachedCompile(t, key, ok)
    \/ \E key \in CallKeys, ok \in BOOLEAN : GlobalCachedCompile(t, key, ok)
    \/ \E arg \in LimitArgValues : SetCacheLimit(t, arg)
    \/ ClearCache(t)
    \/ \E desired \in StrategyArgs : CacheStrategyFn(t, desired)

Next == Calls(MainThread) /\ UNCHANGED <<missLog, lastRet, ctxSeen, sideVars>>

Spec == Init /\ [][Next]_vars

\* the same calls, with the inserted keys logged
NextFifo == Calls(MainThread) /\ TrackInserts(MainThread) /\ UNCHANGED <<lastRet, ctxSeen, sideVars>>

SpecFifo == Init /\ [][NextFifo]_vars

\* the same calls, with the returned values remembered
NextIdem == Calls(MainThread) /\ TrackReturns(MainThread) /\ UNCHANGED <<missLog, ctxSeen, sideVars>>

SpecIdem == Init /\ [][NextIdem]_vars

\* both strategy switches with the operations behind them, called by one
\* thread with one pattern
CoordKeys == {key \in Keys : key[1] = 1 /\ ~key[3]}

CoordLimitArgs == {IntArg(1)}
CoordCaptureCounts == {0}
CoordSizes == {1}
CoordCompiles == 1      \* values constructed in a run of SpecCoord
CoordObjects == 1       \* scratch objects constructed in a run of SpecCoord

NextCoord ==
    /\ \/ \E key \in CoordKeys : ThreadCachedCompile(MainThread, key, TRUE)
       \/ \E key \in CoordKeys : GlobalCachedCompile(MainThread, key, TRUE)
       \/ \E arg \in CoordLimitArgs : SetCacheLimit(MainThread, arg)
       \/ ClearCache(MainThread)
       \/ \E desired \in StrategyArgs : CacheStrategyFn(MainThread, desired)
       \/ \E capture_count \in CoordCaptureCounts :
             MatchDataAcquire(MainThread, capture_count, TRUE)
       \/ \E object \in held[MainThread] : MatchDataRelease(MainThread, object, TRUE)
       \/ JitStackAcquire(MainThread, TRUE)
       \/ \E object \in held[MainThread] : JitStackRelease(MainThread, object, TRUE)
       \/ \E size \in CoordSizes : SetMatchDataCacheSize(MainThread, size)
       \/ \E size \in CoordSizes : SetJitStackCacheSize(MainThread, size)
       \/ ClearMatchDataCache(MainThread)
       \/ ClearJitStackCache(MainThread)
       \/ \E name \in StrategyArgs : ModuleSetCacheStrategy(MainThread, name)
    /\ constructed' <= CoordCompiles /\ made' <= CoordObjects
    /\ UNCHANGED <<missLog, lastRet, ctxSeen, sideVars>>

SpecCoord == Init /\ [][NextCoord]_vars

\* the match-data pool of cache.c, called by one thread
NextMatch ==
    /\ \/ \E capture_count \in CaptureCounts, create_ok \in BOOLEAN :
             MatchDataAcquire(MainThread, capture_count, create_ok)
       \/ \E object \in held[MainThread], node_ok \in BOOLEAN :
             MatchDataRelease(MainThread, object, node_ok)
       \/ \E size \in SizeArgs : SetMatchDataCacheSize(MainThread, size)
       \/ ClearMatchDataCache(MainThread)
       \/ \E name \in StrategyArgs : ModuleSetCacheStrategy(MainThread, name)
    /\ UNCHANGED <<missLog, lastRet, ctxSeen, sideVars>>

SpecMatch == Init /\ [][NextMatch]_vars

\* the JIT-stack pool of cache.c, called by one thread
JitSizes == 0..1
JitObjects == 2         \* stacks constructed in a run of SpecJit

NextJit ==
    /\ \/ \E create_ok \in BOOLEAN : JitStackAcquire(MainThread, create_ok)
       \/ \E object \in held[MainThread], node_ok \in BOOLEAN :
             JitStackRelease(MainThread, object, node_ok)
       \/ \E size \in JitSizes : SetJitStackCacheSize(MainThread, size)
       \/ ClearJitStackCache(MainThread)
       \/ \E limits \in StackLimitArgs :
             SetJitStackLimits(MainThread, limits[1], limits[2])
       \/ \E name \in StrategyArgs : ModuleSetCacheStrategy(MainThread, name)
    /\ made' <= JitObjects
    /\ UNCHANGED <<missLog, lastRet, ctxSeen, sideVars>>

SpecJit == Init /\ [][NextJit]_vars

\* both pools of cache.c, called by one thread
PoolsCaptureCounts == {0}
PoolsSizes == 0..1
PoolsObjects == 2       \* objects constructed in a run of SpecPools

NextPools ==
    /\ \/ \E capture_count \in PoolsCaptureCounts :
             MatchDataAcquire(MainThread, capture_count, TRUE)
       \/ \E object \in held[MainThread] : MatchDataRelease(MainThread, object, TRUE)
       \/ JitStackAcquire(MainThread, TRUE)
       \/ \E object \in held[MainThread] : JitStackRelease(MainThread, object, TRUE)
       \/ \E size \in PoolsSizes : SetMatchDataCacheSize(MainThread, size)
       \/ \E size \in PoolsSizes : SetJitStackCacheSize(MainThread, size)
       \/ ClearMatchDataCache(MainThread)
       \/ ClearJitStackCache(MainThread)
       \/ \E name \in Strategies : ModuleSetCacheStrategy(MainThread, name)
    /\ made' <= PoolsObjects
    /\ UNCHANGED <<missLog, lastRet, ctxSeen, sideVars>>

SpecPools == Init /\ [][NextPools]_vars

\* the match contexts of cache.c, called by every thread; ctxSeen keeps the
\* first context a thread was given for a kind while the cache was enabled
ContextObjects == 2     \* contexts constructed in a run of SpecContext

TrackContexts(t, use_offset_limit) ==
    ctxSeen' = IF /\ context_cache_enabled
                  /\ ctxSeen[t][use_offset_limit] = NoValue
               THEN [ctxSeen EXCEPT ![t][use_offset_limit] = pret'[t].object]
               ELSE ctxSeen

NextContext ==
    /\ \/ \E t \in Threads, use_offset_limit \in BOOLEAN, create_ok \in BOOLEAN :
             /\ MatchContextAcquire(t, use_offset_limit, create_ok)
             /\ TrackContexts(t, use_offset_limit)
       \/ \E t \in Threads : \E context \in lent[t] :
             MatchContextRelease(t, context) /\ UNCHANGED ctxSeen
       \/ \E enabled \in BOOLEAN :
             SetContextCacheEnabled(enabled) /\ UNCHANGED ctxSeen
       \/ \E t \in Threads : ClearMatchDataCache(t) /\ UNCHANGED ctxSeen
       \/ \E name \in Strategies :
             ModuleSetCacheStrategy(MainThread, name) /\ UNCHANGED ctxSeen
    /\ made' <= ContextObjects
    /\ UNCHANGED <<missLog, lastRet, sideVars>>

SpecContext == Init /\ [][NextContext]_vars

\* ------------------------------ the global pattern cache, calls interleaved

\* a faulty variant: the lock is kept over the call of the compiler
lock_kept_during_compile(t) == t

\* the holder of state->lock while call_compile_and_wrap runs after a miss:
\* the lock is released before the call
lock_during_compile(t) == NoThread

\* cached_compile under the global strategy up to the call of the compiler:
\* the first locked section. With capacity 0 the value is compiled and
\* returned without touching the cache; a hit is returned; on a miss the lock
\* is released and the thread goes on to compile.
SharedCompileBegin(t, key, ok) ==
    LET decision == global_lookup(gstate, key)
        fresh == constructed + 1
    IN /\ Idle(t)
       /\ CURRENT_STRATEGY = CACHE_STRATEGY_GLOBAL
       /\ glock = NoThread
       /\ CACHE_STRATEGY_LOCKED' = lock_cache_strategy(CACHE_STRATEGY_LOCKED)
       /\ IF decision = "miss"
          THEN /\ call' = [call EXCEPT ![t] = [NoCall EXCEPT !.pc = "compiling",
                                                            !.key = key]]
               /\ glock' = lock_during_compile(t)
               /\ UNCHANGED <<constructed, ret>>
          ELSE LET r == global_cached_compile(gstate, key, ok, fresh)
               IN /\ r.value = fresh => constructed < MaxCompiles
                  /\ constructed' = IF r.value = fresh THEN fresh ELSE constructed
                  /\ ret' = [ret EXCEPT ![t] = CompileRet(key, r)]
                  /\ UNCHANGED <<call, glock>>
       /\ UNCHANGED <<CURRENT_STRATEGY, threadEntry, gstate>>
       /\ UNCHANGED <<poolVars, auxVars>>

\* cached_compile under the global strategy from the return of the compiler:
\* a failure is raised; a value is stored in the second locked section
SharedCompileEnd(t, ok) ==
    LET key == call[t].key
        fresh == constructed + 1
    IN /\ call[t].pc = "compiling"
       /\ glock = NoThread
       /\ ok => constructed < MaxCompiles
       /\ gstate' = IF ok THEN global_insert(gstate, key, fresh) ELSE gstate
       /\ constructed' = IF ok THEN fresh ELSE constructed
       /\ ret' = [ret EXCEPT ![t] =
                    CompileRet(key, [value |-> IF ok THEN fresh ELSE NoValue,
                                     error |-> ~ok, compiled |-> TRUE,
                                     inserted |-> ok])]
       /\ call' = [call EXCEPT ![t] = NoCall]
       /\ UNCHANGED <<CURRENT_STRATEGY, CACHE_STRATEGY_LOCKED, threadEntry, glock>>
       /\ UNCHANGED <<poolVars, auxVars>>

\* the module imported with PYPCRE_CACHE_PATTERN_GLOBAL set
InitShared == Init /\ CURRENT_STRATEGY = CACHE_STRATEGY_GLOBAL

\* the keys the interleaved threads ask for, the capacities they set and the
\* values constructed in a run of SpecShared
SharedKeys == {key \in Keys : ~key[3]}
SharedLimitArgs == {IntArg(n) : n \in 0..MaxLimit}
SharedCompiles == 3

NextShared ==
    /\ \/ \E t \in Threads, key \in SharedKeys, ok \in BOOLEAN :
             SharedCompileBegin(t, key, ok)
       \/ \E t \in Threads, ok \in BOOLEAN : SharedCompileEnd(t, ok)
       \/ \E t \in Threads, arg \in SharedLimitArgs : SetCacheLimit(t, arg)
       \/ \E t \in Threads : ClearCache(t)
    /\ constructed' <= SharedCompiles
    /\ UNCHANGED <<missLog, lastRet, ctxSeen, sideVars>>

SpecShared == InitShared /\ [][NextShared]_vars

\* ------------------------------------ every call, lock section by section
\* (the sections change the caches, the pools and the locks; what a call
\* returns is recorded by the operations above, which run a call as a whole)

\* the section a thread's operation has reached
Current(t) == Head(frame[t].steps)

\* the thread holding a lock
Holder(lock) == IF lock = PatternLock THEN glock ELSE plocks[lock]

\* a thread enters an operation: cached_compile sets CACHE_STRATEGY_LOCKED
\* and the functions of pattern_cache.c read CURRENT_STRATEGY, both without a
\* lock
BeginCall(t, op, key, n, object) ==
    /\ Idle(t)
    /\ frame[t] = NoFrame
    /\ frame' = [frame EXCEPT ![t] =
                   [NoFrame EXCEPT !.op = op,
                                   !.steps = program_of(op, CURRENT_STRATEGY),
                                   !.key = key, !.n = n,
                                   !.object = object]]
    /\ CACHE_STRATEGY_LOCKED' = IF op = "cached_compile"
                                THEN lock_cache_strategy(CACHE_STRATEGY_LOCKED)
                                ELSE CACHE_STRATEGY_LOCKED
    /\ UNCHANGED <<CURRENT_STRATEGY, threadEntry, gstate, glock, call, constructed, ret>>
    /\ UNCHANGED <<poolVars, context_cache_enabled, lent, plocks>>

\* PyThread_acquire_lock(lock, 1): the thread goes on when the lock is free
LockEnter(t) ==
    /\ frame[t].op # "none"
    /\ ~frame[t].inside
    /\ Current(t).lock # NoLock
    /\ Holder(Current(t).lock) = NoThread
    /\ frame' = [frame EXCEPT ![t].inside = TRUE]
    /\ IF Current(t).lock = PatternLock
       THEN glock' = t /\ UNCHANGED plocks
       ELSE plocks' = [plocks EXCEPT ![Current(t).lock] = t] /\ UNCHANGED glock
    /\ UNCHANGED <<CURRENT_STRATEGY, CACHE_STRATEGY_LOCKED, threadEntry, gstate, call,
                   constructed, ret>>
    /\ UNCHANGED <<poolVars, context_cache_enabled, lent>>

\* the thread is where a section's body runs: past the section's lock
Ready(t, bodies) ==
    /\ frame[t].op # "none"
    /\ Current(t).body \in bodies
    /\ frame[t].inside \/ Current(t).lock = NoLock

\* a faulty variant: a section that returns keeps its lock
Leave_keeping_lock(t, f, more, return) ==
    LET held_lock == IF frame[t].inside /\ ~return THEN Current(t).lock ELSE NoLock
        steps == IF return THEN << >> ELSE more \o Tail(frame[t].steps)
    IN /\ frame' = [frame EXCEPT ![t] =
                      IF steps = << >> THEN NoFrame
                      ELSE [f EXCEPT !.steps = steps, !.inside = FALSE]]
       /\ glock' = IF held_lock = PatternLock THEN NoThread ELSE glock
       /\ plocks' = IF held_lock \in PoolLocks
                    THEN [plocks EXCEPT ![held_lock] = NoThread] ELSE plocks

\* the end of a section: its lock is released and the operation goes on with
\* the sections in more and those left, or returns
Leave(t, f, more, return) ==
    LET held_lock == IF frame[t].inside THEN Current(t).lock ELSE NoLock
        steps == IF return THEN << >> ELSE more \o Tail(frame[t].steps)
    IN /\ frame' = [frame EXCEPT ![t] =
                      IF steps = << >> THEN NoFrame
                      ELSE [f EXCEPT !.steps = steps, !.inside = FALSE]]
       /\ glock' = IF held_lock = PatternLock THEN NoThread ELSE glock
       /\ plocks' = IF held_lock \in PoolLocks
                    THEN [plocks EXCEPT ![held_lock] = NoThread] ELSE plocks

\* the sections of cache.c under cache_state_lock
StateSection(t) ==
    LET f == frame[t]
        step == Current(t)
    IN /\ Ready(t, {"mark_locked", "get_strategy", "tss_is_created"})
       /\ cache_strategy_locked' =
             IF step.body = "mark_locked"
             THEN mark_cache_strategy_locked(cache_strategy_locked)
             ELSE cache_strategy_locked
       /\ IF step.body = "get_strategy"
          THEN Leave(t, [f EXCEPT !.strategy = cache_strategy],
                     pool_program(step.then, cache_strategy, tstate[t].exists,
                                  step.pool), FALSE)
          ELSE Leave(t, f, << >>, FALSE)
       /\ UNCHANGED <<patternVars_but_glock, tstate, gpool, held, freed, made, pret>>
       /\ UNCHANGED <<cache_strategy, context_cache_enabled, lent>>

\* the sections of cached_compile, set_cache_limit and clear_cache
PatternSection(t, ok) ==
    LET f == frame[t]
        body == Current(t).body
        fresh == constructed + 1
        entry == threadEntry[t]
        decision == global_lookup(gstate, f.key)
        rt == thread_cached_compile(entry, f.key, ok, fresh)
        rg == global_cached_compile(gstate, f.key, ok, fresh)
        r == IF body = "thread_compile" THEN rt
             ELSE IF body = "lookup" THEN rg
             ELSE [value |-> IF ok THEN fresh ELSE NoValue, error |-> ~ok,
                   compiled |-> TRUE, inserted |-> ok]
        miss == body = "lookup" /\ decision = "miss"
        returns == \/ body = "thread_compile"
                   \/ body = "lookup" /\ ~miss
                   \/ body = "compile" /\ ~ok
                   \/ body = "insert"
        builds == \/ body \in {"thread_compile", "lookup"} /\ ~miss /\ r.value = fresh
                  \/ body = "compile" /\ ok
    IN /\ Ready(t, {"thread_compile", "lookup", "compile", "insert", "store_limit",
                    "apply_limit", "clear_patterns", "thread_set_limit",
                    "thread_clear"})
       /\ body \in {"thread_compile", "lookup", "compile"} \/ ok
       /\ builds => constructed < MaxCompiles
       /\ constructed' = IF builds THEN fresh ELSE constructed
       /\ threadEntry' =
             CASE body = "thread_compile" -> [threadEntry EXCEPT ![t] = rt.state]
               [] body = "thread_set_limit" ->
                    [threadEntry EXCEPT ![t] = thread_set_cache_limit(entry, f.n)]
               [] body = "thread_clear" ->
                    [threadEntry EXCEPT ![t] = thread_clear_cache(entry)]
               [] OTHER -> threadEntry
       /\ gstate' =
             CASE body = "insert" -> global_insert(gstate, f.key, f.object.id)
               [] body = "store_limit" -> global_store_limit(gstate, f.n)
               [] body = "apply_limit" -> global_apply_limit(gstate, f.n)
               [] body = "clear_patterns" -> global_clear_cache(gstate)
               [] OTHER -> gstate
       /\ IF miss
          THEN Leave(t, f, <<Step("compile", NoLock, "none", "none"),
                             Step("insert", Current(t).lock, "none", "none")>>, FALSE)
          ELSE IF body = "compile"
          THEN Leave(t, [f EXCEPT !.object = [NoObject EXCEPT !.id = fresh]],
                     << >>, ~ok)
          ELSE Leave(t, f, << >>, returns)
       /\ UNCHANGED <<CURRENT_STRATEGY, CACHE_STRATEGY_LOCKED, call, ret>>
       /\ UNCHANGED <<poolVars, context_cache_enabled, lent>>

\* the list sections of cache.c: thread_* without a lock, global_* under the
\* pool's lock; an acquire that found nothing constructs after the section
PoolSection(t, node_ok) ==
    LET f == frame[t]
        step == Current(t)
        body == step.body
        match == step.pool = "match"
        local == f.strategy = CACHE_STRATEGY_THREAD_LOCAL
        state == IF body = "release" /\ local THEN tstate[t]
                 ELSE ScratchState(f.strategy, t)
        pool == IF match THEN state.match ELSE state.jit
        r == CASE body = "take" ->
                    IF match THEN match_data_cache_take(pool, f.n)
                    ELSE jit_stack_cache_take(pool)
               [] body = "release" ->
                    IF local /\ ~state.exists
                    THEN PoolResult(pool, NoObject, {f.object.id})
                    ELSE cache_release(pool, f.object, node_ok)
               [] body = "set_size" -> cache_set_size(pool, f.n)
               [] body = "clear" -> cache_free_all(pool)
               [] OTHER -> PoolResult(pool, NoObject, {})
        cleared == IF body = "clear" /\ match /\ local
                   THEN thread_match_data_cache_free_all(state) ELSE state
        after == IF match THEN [cleared EXCEPT !.match = r.pool]
                 ELSE [cleared EXCEPT !.jit = r.pool]
        constructs == body = "create" /\ f.object = NoObject
        object == IF ~constructs THEN f.object
                  ELSE IF match THEN MatchData(made + 1, f.n)
                  ELSE JitStack(made + 1, state.jit_start_size, state.jit_max_size)
    IN /\ Ready(t, {"take", "create", "release", "set_size", "clear"})
       /\ body = "release" \/ node_ok
       /\ constructs => made < MaxObjects
       /\ StoreScratch(f.strategy, t, after)
       /\ made' = IF constructs THEN made + 1 ELSE made
       /\ freed' = freed \cup r.destroyed
                     \cup (IF body = "clear" /\ match
                           THEN thread_contexts_destroyed(f.strategy, state) ELSE {})
       /\ held' = CASE body = "create" -> [held EXCEPT ![t] = @ \cup {object}]
                    [] body = "release" -> [held EXCEPT ![t] = @ \ {f.object}]
                    [] OTHER -> held
       /\ Leave(t, IF body = "take" THEN [f EXCEPT !.object = r.object] ELSE f,
                << >>, FALSE)
       /\ UNCHANGED <<patternVars_but_glock, cache_strategy, cache_strategy_locked, pret>>
       /\ UNCHANGED <<context_cache_enabled, lent>>

\* the inputs and the objects constructed in a run of SpecLocks
LockKeys == {<<1, 0, FALSE>>}
LockLimits == {0}
LockSizes == {0}
LockCompiles == 1
LockObjects == 1

\* the main thread configures the caches as well as using them
Configures(t) == t = MainThread

NextLocks ==
    /\ \/ \E t \in Threads, key \in LockKeys :
             BeginCall(t, "cached_compile", key, 0, NoObject)
       \/ \E t \in Threads, n \in LockLimits :
             Configures(t) /\ BeginCall(t, "set_cache_limit", PyNone, n, NoObject)
       \/ \E t \in Threads : BeginCall(t, "clear_cache", PyNone, 0, NoObject)
       \/ \E t \in Threads :
             BeginCall(t, "match_data_acquire", PyNone, required_pairs_of(0), NoObject)
       \/ \E t \in Threads : \E object \in held[t] :
             /\ object.ovec_count > 0
             /\ BeginCall(t, "match_data_release", PyNone, 0, object)
       \/ \E t \in Threads :
             BeginCall(t, "jit_stack_acquire", PyNone, 0, NoObject)
       \/ \E t \in Threads : \E object \in held[t] :
             /\ object.ovec_count = 0
             /\ BeginCall(t, "jit_stack_release", PyNone, 0, object)
       \/ \E t \in Threads, n \in LockSizes :
             /\ Configures(t)
             /\ BeginCall(t, "set_match_data_cache_size", PyNone, n, NoObject)
       \/ \E t \in Threads, n \in LockSizes :
             /\ Configures(t)
             /\ BeginCall(t, "set_jit_stack_cache_size", PyNone, n, NoObject)
       \/ \E t \in Threads :
             /\ Configures(t)
             /\ BeginCall(t, "clear_match_data_cache", PyNone, 0, NoObject)
       \/ \E t \in Threads :
             /\ Configures(t)
             /\ BeginCall(t, "clear_jit_stack_cache", PyNone, 0, NoObject)
       \/ \E t \in Threads : LockEnter(t)
       \/ \E t \in Threads : StateSection(t)
       \/ \E t \in Threads, ok \in BOOLEAN : PatternSection(t, ok)
       \/ \E t \in Threads : PoolSection(t, TRUE)
    /\ constructed' <= LockCompiles /\ made' <= LockObjects
    /\ UNCHANGED <<missLog, lastRet, ctxSeen, sideVars>>

\* both strategy switches were set to global before the first use
InitLocks ==
    /\ Loaded
    /\ keys = [slot \in KeySlots |-> NoKey]
    /\ CURRENT_STRATEGY = CACHE_STRATEGY_GLOBAL
    /\ cache_strategy = module_set_cache_strategy(CACHE_STRATEGY_THREAD_LOCAL, FALSE,
                                                  CACHE_STRATEGY_GLOBAL)

SpecLocks == InitLocks /\ [][NextLocks]_vars

\* both strategy switches are thread-local, as they are by default
InitConfined ==
    /\ Init
    /\ CURRENT_STRATEGY = CACHE_STRATEGY_THREAD_LOCAL

SpecConfined == InitConfined /\ [][NextLocks]_vars

\* ------------------------- the global caches under a fair scheduler

FairCompiles == 1       \* values constructed in a run of SpecFair
FairObjects == 1        \* blocks and stacks constructed in a run of SpecFair
FairLimits == {0}

\* the sections of thread t, within the bounds of the run
FairEnter(t) ==
    LockEnter(t) /\ UNCHANGED <<missLog, lastRet, ctxSeen, sideVars>>

FairSection(t) ==
    /\ \/ StateSection(t)
       \/ \E ok \in BOOLEAN : PatternSection(t, ok)
       \/ \E node_ok \in BOOLEAN : PoolSection(t, node_ok)
    /\ constructed' <= FairCompiles /\ made' <= FairObjects
    /\ UNCHANGED <<missLog, lastRet, ctxSeen, sideVars>>

NextFair ==
    /\ \/ \E t \in Threads, key \in LockKeys :
             BeginCall(t, "cached_compile", key, 0, NoObject)
       \/ \E n \in FairLimits :
             BeginCall(MainThread, "set_cache_limit", PyNone, n, NoObject)
       \/ \E t \in Threads :
             BeginCall(t, "match_data_acquire", PyNone, required_pairs_of(0), NoObject)
       \/ \E t \in Threads : \E object \in held[t] :
             /\ object.ovec_count > 0
             /\ BeginCall(t, "match_data_release", PyNone, 0, object)
       \/ \E t \in Threads :
             BeginCall(t, "jit_stack_acquire", PyNone, 0, NoObject)
       \/ \E t \in Threads : \E object \in held[t] :
             /\ object.ovec_count = 0
             /\ BeginCall(t, "jit_stack_release", PyNone, 0, object)
       \/ \E t \in Threads : FairEnter(t)
       \/ \E t \in Threads : FairSection(t)
    /\ UNCHANGED <<missLog, lastRet, ctxSeen, sideVars>>

\* the scheduler lets every thread run its sections, and a lock that is
\* freed again and again is given to each thread waiting for it
Fairness ==
    \A t \in Threads : SF_vars(FairEnter(t)) /\ WF_vars(FairSection(t))

SpecFair == InitLocks /\ [][NextFair]_vars /\ Fairness

\* --------------------------------- cache keys and the sparse hash, called

cacheVars == <<patternVars, missLog, lastRet, poolVars, auxVars, ctxSeen, teardownVars>>

KeyPatterns == ObjectsUpTo(MaxKeyLen)
HashArgs == ObjectsUpTo(MaxHashLen)

\* the keys SparseCacheKey(pattern, flags, jit) constructs
SparseCacheKeys ==
    {SparseCacheKey_new(pattern, flags, jit) :
        pattern \in KeyPatterns, flags \in KeyFlags, jit \in BOOLEAN}

\* self == other, self != other or self < other
SparseCacheKeyRichcompare(self, other, op) ==
    /\ self # NoKey /\ other # NoKey
    /\ compared' = [self |-> self, other |-> other, op |-> op,
                    result |-> SparseCacheKey_richcompare(self, other, op)]
    /\ UNCHANGED <<keys, hashed, cacheVars>>

NextKeys ==
    \E other \in {keys[2], NotAKey}, op \in CompareOps :
        SparseCacheKeyRichcompare(keys[1], other, op)

\* two keys have been constructed, from any patterns, flags and jit flags
InitKeys ==
    /\ Loaded
    /\ cache_strategy = CACHE_STRATEGY_THREAD_LOCAL
    /\ CURRENT_STRATEGY = CACHE_STRATEGY_THREAD_LOCAL
    /\ keys \in [KeySlots -> SparseCacheKeys]

SpecKeys == InitKeys /\ [][NextKeys]_vars

\* sparse_half_hash(arg)
SparseHalfHash(arg) ==
    /\ hashed' = module_sparse_half_hash(arg)
    /\ UNCHANGED <<keys, compared, cacheVars>>

NextHash == \E arg \in HashArgs : SparseHalfHash(arg)

SpecHash == Init /\ [][NextHash]_vars

\* ------------------------------------ the sparse hash of long arguments

MaxStrideLen == 36      \* longest argument of sparse_half_hash in SpecStride

\* len elements, all alike but the one at position at (none when at = 0)
Marked(len, at) == [i \in 1..len |-> IF i = at THEN 98 ELSE 97]

\* bytes marked anywhere; text marked at one of its last two elements, or nowhere
StrideContents ==
    UNION {{Marked(len, at) : at \in 0..len} : len \in 0..MaxStrideLen}

StrideEndContents ==
    UNION {{Marked(len, at) : at \in {0} \cup ((len - 1)..len)} : len \in 0..MaxStrideLen}

StrideArgs ==
    [kind : {"bytes"}, data : StrideContents, copy : {1}]
        \cup [kind : {"str"}, data : StrideEndContents, copy : {1}]

NextStride == \E arg \in StrideArgs : SparseHalfHash(arg)

SpecStride == InitConfined /\ [][NextStride]_vars

\* ------------------------------------------- thread exit and cache_teardown

TeardownObjects == 2    \* match-data blocks constructed in a run of SpecTeardown
TeardownCompiles == 1   \* values compiled in a run of SpecTeardown

PooledIds(pool) == {pool.head[i].id : i \in 1..Len(pool.head)}

\* every object a ThreadCacheState keeps
StateObjects(state) ==
    PooledIds(state.match) \cup PooledIds(state.jit)
        \cup ({state.match_context, state.offset_match_context} \ {NoValue})

\* a faulty variant: cache_tss_created stays set
thread_cache_teardown_flag_kept(created, state) ==
    [created |-> created,
     key_deleted |-> created,
     state |-> IF created /\ state.exists THEN AbsentThreadState ELSE state,
     destroyed |-> IF created /\ state.exists THEN StateObjects(state) ELSE {}]

\* thread_cache_teardown, run by the thread that owns state: nothing when the
\* key does not exist; else the caller's state, if any, is emptied and freed,
\* the key is deleted and cache_tss_created reset
thread_cache_teardown(created, state) ==
    [created |-> FALSE,
     key_deleted |-> created,
     state |-> IF created /\ state.exists THEN AbsentThreadState ELSE state,
     destroyed |-> IF created /\ state.exists THEN StateObjects(state) ELSE {}]

\* global_cache_teardown: both lists are emptied, capacities and sizes reset
global_cache_teardown(pools) ==
    [pools |-> InitialGlobalPools,
     destroyed |-> PooledIds(pools.match) \cup PooledIds(pools.jit)]

\* the key and the locks a pool operation goes through under a strategy:
\* cache_state_lock in cache_strategy_get, then the key on the thread-local
\* path or the pool's lock on the global path, each only when its flag or
\* pointer says it is there
PoolUses(strategy, lock) ==
    {r \in {StateLock} \cup (IF strategy = CACHE_STRATEGY_THREAD_LOCAL
                             THEN {CacheTss} ELSE {lock}) : handle[r]}

\* the step has used these; using what was destroyed is recorded
Touch(used) ==
    /\ misuse' = misuse \cup (used \cap deleted)
    /\ UNCHANGED <<exited, handle, deleted>>

\* the thread-local path is open: the key exists
Initialised(strategy) ==
    strategy = CACHE_STRATEGY_GLOBAL \/ handle[CacheTss]

\* cache_teardown(), run by thread t
CacheTeardown(t) ==
    LET own == thread_cache_teardown(handle[CacheTss], tstate[t])
        shared == global_cache_teardown(gpool)
        freeing == {r \in PoolLocks : handle[r]}
                       \cup (IF own.key_deleted THEN {CacheTss} ELSE {})
        objects == own.destroyed \cup shared.destroyed
    IN /\ Idle(t) /\ t \notin exited
       /\ held[t] = {} /\ lent[t] = {}
       /\ tstate' = [tstate EXCEPT ![t] = own.state]
       /\ gpool' = shared.pools
       /\ freed' = freed \cup objects
       /\ cache_strategy_locked' = FALSE
       /\ cache_strategy' = CACHE_STRATEGY_THREAD_LOCAL
       /\ handle' = [r \in ResourceNames |->
                        IF r = CacheTss THEN own.created ELSE FALSE]
       /\ deleted' = deleted \cup freeing
       /\ misuse' = misuse \cup (freeing \cap deleted)
                           \cup (IF objects \cap freed # {} THEN {"object"} ELSE {})
       /\ pret' = [pret EXCEPT ![t] = [NoPoolRet EXCEPT !.op = "cache_teardown"]]
       /\ UNCHANGED <<patternVars, auxVars, held, made, exited>>

\* thread t exits: its thread-state dict is cleared, which runs
\* thread_cache_capsule_destructor on its pattern-cache entry; cache_tss was
\* created without a destructor, so its ThreadCacheState stays as it is
ThreadExit(t) ==
    /\ Idle(t) /\ t \notin exited
    /\ held[t] = {} /\ lent[t] = {}
    /\ exited' = exited \cup {t}
    /\ threadEntry' = [threadEntry EXCEPT ![t] = AbsentEntry]
    /\ UNCHANGED <<CURRENT_STRATEGY, CACHE_STRATEGY_LOCKED, gstate, glock, call,
                   constructed, ret>>
    /\ UNCHANGED <<poolVars, auxVars, handle, deleted, misuse>>

\* match_data_cache_acquire on the thread-local path without the key:
\* thread_cache_state_get_or_create raises RuntimeError
MatchDataAcquireUninitialised(t) ==
    /\ Idle(t)
    /\ cache_strategy = CACHE_STRATEGY_THREAD_LOCAL /\ ~handle[CacheTss]
    /\ cache_strategy_locked' = mark_cache_strategy_locked(cache_strategy_locked)
    /\ pret' = [pret EXCEPT ![t] =
                  [NoPoolRet EXCEPT !.op = "match_data_acquire",
                                    !.error = "RuntimeError"]]
    /\ UNCHANGED <<patternVars, auxVars>>
    /\ UNCHANGED <<cache_strategy, tstate, gpool, held, freed, made>>

\* match_data_cache_release on the thread-local path without the key:
\* thread_cache_state_get returns NULL and the block is freed
MatchDataReleaseUninitialised(t, object) ==
    /\ Idle(t)
    /\ cache_strategy = CACHE_STRATEGY_THREAD_LOCAL /\ ~handle[CacheTss]
    /\ object \in held[t] /\ object.ovec_count > 0
    /\ cache_strategy_locked' = mark_cache_strategy_locked(cache_strategy_locked)
    /\ held' = [held EXCEPT ![t] = @ \ {object}]
    /\ freed' = freed \cup {object.id}
    /\ pret' = [pret EXCEPT ![t] =
                  [NoPoolRet EXCEPT !.op = "match_data_release",
                                    !.object = object.id]]
    /\ UNCHANGED <<patternVars, auxVars>>
    /\ UNCHANGED <<cache_strategy, tstate, gpool, made>>

\* the running threads match, compile and switch the strategy while one of
\* them tears the subsystem down and others exit
NextTeardown ==
    /\ \/ \E t \in Threads \ exited :
             /\ Initialised(cache_strategy)
             /\ MatchDataAcquire(t, 0, TRUE)
             /\ Touch(PoolUses(cache_strategy, MatchLock))
       \/ \E t \in Threads \ exited : \E object \in held[t] :
             /\ Initialised(cache_strategy)
             /\ MatchDataRelease(t, object, TRUE)
             /\ Touch(PoolUses(cache_strategy, MatchLock))
       \/ \E t \in Threads \ exited :
             /\ MatchDataAcquireUninitialised(t)
             /\ Touch(PoolUses(cache_strategy, MatchLock))
       \/ \E t \in Threads \ exited : \E object \in held[t] :
             /\ MatchDataReleaseUninitialised(t, object)
             /\ Touch(PoolUses(cache_strategy, MatchLock))
       \/ \E t \in Threads \ exited, name \in Strategies :
             /\ ModuleSetCacheStrategy(t, name)
             /\ Touch({r \in {StateLock} : handle[r]})
       \/ \E t \in Threads \ exited, key \in CoordKeys :
             /\ ThreadCachedCompile(t, key, TRUE)
             /\ UNCHANGED teardownVars
       \/ \E t \in Threads \ {MainThread} : ThreadExit(t)
       \/ \E t \in Threads : CacheTeardown(t)
    /\ made' <= TeardownObjects /\ constructed' <= TeardownCompiles
    /\ UNCHANGED <<missLog, lastRet, ctxSeen, keyVars>>

SpecTeardown == Init /\ [][NextTeardown]_vars

\* ------------------------------- both pools of cache.c, called by every thread

ObjectsMade == 2        \* blocks and stacks constructed in a run of SpecObjects
ObjectsSizes == {1}

NextObjects ==
    /\ \/ \E t \in Threads : MatchDataAcquire(t, 0, TRUE)
       \/ \E t \in Threads : \E object \in held[t], node_ok \in BOOLEAN :
             MatchDataRelease(t, object, node_ok)
       \/ \E t \in Threads : JitStackAcquire(t, TRUE)
       \/ \E t \in Threads : \E object \in held[t], node_ok \in BOOLEAN :
             JitStackRelease(t, object, node_ok)
       \/ \E size \in ObjectsSizes : SetMatchDataCacheSize(MainThread, size)
       \/ \E size \in ObjectsSizes : SetJitStackCacheSize(MainThread, size)
       \/ ClearMatchDataCache(MainThread)
       \/ ClearJitStackCache(MainThread)
       \/ \E name \in Strategies : ModuleSetCacheStrategy(MainThread, name)
    /\ made' <= ObjectsMade
    /\ UNCHANGED <<missLog, lastRet, ctxSeen, sideVars>>

SpecObjects == Init /\ [][NextObjects]_vars

\* ------------------------- the thread-local caches, called by every thread

OwnCompiles == 1        \* values constructed in a run of SpecOwn
OwnObjects == 1         \* blocks and stacks constructed in a run of SpecOwn

\* the calls of one thread into its thread-local caches
OwnCalls(t) ==
    \/ \E key \in CoordKeys : ThreadCachedCompile(t, key, TRUE)
    \/ \E arg \in CoordLimitArgs : SetCacheLimit(t, arg)
    \/ ClearCache(t)
    \/ MatchDataAcquire(t, 0, TRUE)
    \/ \E object \in held[t] : MatchDataRelease(t, object, TRUE)
    \/ JitStackAcquire(t, TRUE)
    \/ \E object \in held[t] : JitStackRelease(t, object, TRUE)
    \/ \E size \in CoordSizes : SetMatchDataCacheSize(t, size)
    \/ SetJitStackLimits(t, 1, 1)

NextOwn ==
    /\ \E t \in Threads : OwnCalls(t)
    /\ constructed' <= OwnCompiles /\ made' <= OwnObjects
    /\ UNCHANGED <<missLog, lastRet, ctxSeen, sideVars>>

SpecOwn == InitConfined /\ [][NextOwn]_vars

\* ------------------------- the global pattern cache over many evictions

LedgerKeys == {key \in Keys : ~key[3]}
LedgerLimitArgs == {IntArg(0), IntArg(1)}
LedgerCompiles == 68    \* values constructed in a run of SpecLedger

\* cached_compile under the global strategy, the compile succeeding, in a
\* run that constructs up to LedgerCompiles values
LedgerCachedCompile(t, key) ==
    /\ Idle(t)
    /\ CURRENT_STRATEGY = CACHE_STRATEGY_GLOBAL
    /\ glock = NoThread
    /\ LET r == global_cached_compile(gstate, key, TRUE, constructed + 1)
       IN /\ r.value = constructed + 1 => constructed < LedgerCompiles
          /\ CACHE_STRATEGY_LOCKED' = lock_cache_strategy(CACHE_STRATEGY_LOCKED)
          /\ gstate' = r.state
          /\ constructed' = IF r.value = constructed + 1 THEN constructed + 1 ELSE constructed
          /\ ret' = [ret EXCEPT ![t] = CompileRet(key, r)]
    /\ UNCHANGED <<poolVars, auxVars>>
    /\ UNCHANGED <<CURRENT_STRATEGY, threadEntry, glock, call>>

NextLedger ==
    /\ \/ \E key \in LedgerKeys : LedgerCachedCompile(MainThread, key)
       \/ \E arg \in LedgerLimitArgs : SetCacheLimit(MainThread, arg)
       \/ ClearCache(MainThread)
    /\ TrackInserts(MainThread)
    /\ UNCHANGED <<lastRet, ctxSeen, sideVars>>

SpecLedger == InitShared /\ [][NextLedger]_vars

\* ------------------------- allocation and store failures, one thread

\* cached_compile under the thread-local strategy, the store failing or not
ThreadCachedCompileStoring(t, key, ok, set_ok) ==
    /\ Idle(t)
    /\ CURRENT_STRATEGY = CACHE_STRATEGY_THREAD_LOCAL
    /\ LET r == thread_cached_compile_storing(threadEntry[t], key, ok,
                                              constructed + 1, set_ok)
       IN /\ r.value = constructed + 1 => constructed < MaxCompiles
          /\ CACHE_STRATEGY_LOCKED' = lock_cache_strategy(CACHE_STRATEGY_LOCKED)
          /\ threadEntry' = [threadEntry EXCEPT ![t] = r.state]
          /\ constructed' = IF r.value = constructed + 1 THEN constructed + 1 ELSE constructed
          /\ ret' = [ret EXCEPT ![t] = CompileRet(key, r)]
    /\ UNCHANGED <<poolVars, auxVars>>
    /\ UNCHANGED <<CURRENT_STRATEGY, gstate, glock, call>>

\* cached_compile under the global strategy, the stores failing or not
GlobalCachedCompileStoring(t, key, ok, set_ok, append_ok) ==
    /\ Idle(t)
    /\ CURRENT_STRATEGY = CACHE_STRATEGY_GLOBAL
    /\ glock = NoThread
    /\ LET r == global_cached_compile_storing(gstate, key, ok, constructed + 1,
                                              set_ok, append_ok)
       IN /\ r.value = constructed + 1 => constructed < MaxCompiles
          /\ CACHE_STRATEGY_LOCKED' = lock_cache_strategy(CACHE_STRATEGY_LOCKED)
          /\ gstate' = r.state
          /\ constructed' = IF r.value = constructed + 1 THEN constructed + 1 ELSE constructed
          /\ ret' = [ret EXCEPT ![t] = CompileRet(key, r)]
    /\ UNCHANGED <<poolVars, auxVars>>
    /\ UNCHANGED <<CURRENT_STRATEGY, threadEntry, glock, call>>

DegradeKeys == {key \in Keys : key[1] = 1 /\ ~key[3]}
DegradeLimitArgs == {IntArg(1)}
DegradeCompiles == 2    \* values constructed in a run of SpecDegrade
DegradeObjects == 2     \* blocks and stacks constructed in a run of SpecDegrade

NextDegrade ==
    /\ \/ \E key \in DegradeKeys, ok \in BOOLEAN, set_ok \in BOOLEAN :
             ThreadCachedCompileStoring(MainThread, key, ok, set_ok)
       \/ \E key \in DegradeKeys, ok \in BOOLEAN, set_ok \in BOOLEAN,
             append_ok \in BOOLEAN :
             GlobalCachedCompileStoring(MainThread, key, ok, set_ok, append_ok)
       \/ \E arg \in DegradeLimitArgs : SetCacheLimit(MainThread, arg)
       \/ MatchDataAcquire(MainThread, 0, TRUE)
       \/ \E object \in held[MainThread], node_ok \in BOOLEAN :
             MatchDataRelease(MainThread, object, node_ok)
       \/ JitStackAcquire(MainThread, TRUE)
       \/ \E object \in held[MainThread], node_ok \in BOOLEAN :
             JitStackRelease(MainThread, object, node_ok)
       \/ \E name \in Strategies : ModuleSetCacheStrategy(MainThread, name)
    /\ constructed' <= DegradeCompiles
    /\ made' <= DegradeObjects
    /\ UNCHANGED <<missLog, lastRet, ctxSeen, sideVars>>

SpecDegrade == Init /\ [][NextDegrade]_vars

\* ------------------------- both pattern caches, given the same calls

\* the run that stands for the global cache; MainThread's is the thread-local one
SharedRun == CHOOSE t \in Threads : t # MainThread

EquivLimitArgs == {NoneArg} \cup {IntArg(n) : n \in 0..MaxLimit}

\* both caches have been given the same capacity
EqualCapacity ==
    /\ threadEntry[MainThread].exists
    /\ threadEntry[MainThread].cache_limit = gstate.cache_limit

\* cached_compile(pattern, flags, wrapper, jit=...) on the thread-local cache
\* and on the global cache, the compile service answering both alike
BothCachedCompile(key, ok) ==
    LET tr == thread_cached_compile(threadEntry[MainThread], key, ok, constructed + 1)
        gr == global_cached_compile(gstate, key, ok, constructed + 1)
        built == tr.value = constructed + 1 \/ gr.value = constructed + 1
    IN /\ EqualCapacity
       /\ built => constructed < MaxCompiles
       /\ CACHE_STRATEGY_LOCKED' = lock_cache_strategy(CACHE_STRATEGY_LOCKED)
       /\ threadEntry' = [threadEntry EXCEPT ![MainThread] = tr.state]
       /\ gstate' = gr.state
       /\ constructed' = IF built THEN constructed + 1 ELSE constructed
       /\ ret' = [ret EXCEPT ![MainThread] = CompileRet(key, tr),
                             ![SharedRun] = CompileRet(key, gr)]
       /\ UNCHANGED <<CURRENT_STRATEGY, glock, call>>

\* set_cache_limit(value) on both caches
BothSetCacheLimit(arg) ==
    LET limit == parse_limit(arg)
        answer == [NoRet EXCEPT !.op = "set_cache_limit", !.limit = limit]
    IN /\ parse_limit_error(arg) = "none"
       /\ threadEntry' = [threadEntry EXCEPT ![MainThread] =
                             thread_set_cache_limit(threadEntry[MainThread], limit)]
       /\ gstate' = global_set_cache_limit(gstate, limit)
       /\ ret' = [ret EXCEPT ![MainThread] = answer, ![SharedRun] = answer]
       /\ UNCHANGED <<CURRENT_STRATEGY, CACHE_STRATEGY_LOCKED, glock, call, constructed>>

\* clear_cache() on both caches; the scratch pools it also clears are empty
BothClearCache ==
    LET answer == [NoRet EXCEPT !.op = "clear_cache"]
    IN /\ EqualCapacity
       /\ threadEntry' = [threadEntry EXCEPT ![MainThread] =
                             thread_clear_cache(threadEntry[MainThread])]
       /\ gstate' = global_clear_cache(gstate)
       /\ ret' = [ret EXCEPT ![MainThread] = answer, ![SharedRun] = answer]
       /\ UNCHANGED <<CURRENT_STRATEGY, CACHE_STRATEGY_LOCKED, glock, call, constructed>>

\* the first call gives both empty caches one capacity
NextEquiv ==
    /\ \/ \E key \in Keys, ok \in BOOLEAN : BothCachedCompile(key, ok)
       \/ \E arg \in EquivLimitArgs : BothSetCacheLimit(arg)
       \/ BothClearCache
    /\ UNCHANGED <<missLog, lastRet, poolVars, auxVars, ctxSeen, sideVars>>

SpecEquiv == Init /\ [][NextEquiv]_vars

\* ------------------------------------------------------------------ claims

\* the last n elements of a sequence (all of it when it is shorter)
LastN(s, n) == IF Len(s) <= n THEN s ELSE SubSeq(s, Len(s) - n + 1, Len(s))

Main == MainThread
MainCache == ActiveCache(CURRENT_STRATEGY, threadEntry, gstate, Main)
MainLimit == ActiveLimit(CURRENT_STRATEGY, threadEntry, gstate, Main)

\* C1: with one calling thread, after every call each pattern cache holds at
\* most as many entries as its capacity n >= 0 in force allows.
C1_CapacityBound ==
    /\ \A t \in Threads :
          threadEntry[t].cache_limit >= 0
             => Len(threadEntry[t].pattern_cache) <= threadEntry[t].cache_limit
    /\ gstate.cache_limit >= 0
          => Len(gstate.pattern_cache) <= gstate.cache_limit

\* a miss has just been stored in a global cache that is full at capacity 2,
\* after a third value was constructed
C1_Witness ==
    /\ CURRENT_STRATEGY = CACHE_STRATEGY_GLOBAL
    /\ ret[Main].op = "cached_compile" /\ ret[Main].inserted
    /\ gstate.cache_limit = 2 /\ Len(gstate.pattern_cache) = 2
    /\ constructed >= 3

\* C2: with capacity n > 0 and no clear or capacity change since, once at
\* least n keys have been inserted the resident keys are exactly the last n
\* inserted, oldest first, whatever hits came in between.
C2_FifoSurvivors ==
    (MainLimit > 0 /\ Len(missLog) >= MainLimit)
        => DictKeys(MainCache) = LastN(missLog, MainLimit)

\* capacity 2, four values constructed, and the two newest keys are resident
C2_Witness ==
    /\ CURRENT_STRATEGY = CACHE_STRATEGY_GLOBAL
    /\ MainLimit = 2 /\ Len(missLog) = 2 /\ constructed = 4
    /\ Len(gstate.pattern_cache) = 2
    /\ gstate.pattern_cache[1][2] = 3 /\ gstate.pattern_cache[2][2] = 4

\* C3: with a capacity other than 0, a cached_compile for a key for which an
\* earlier call returned a value, with no eviction of the key, clear or
\* capacity change since, returns that same value and does not call the
\* compile service.
C3_Idempotent ==
    [][\A k \in Keys :
          (/\ ret'[Main].op = "cached_compile" /\ ret'[Main].key = k
           /\ lastRet[k] # NoValue
           /\ MainLimit # 0)
          => (/\ ret'[Main].value = lastRet[k]
              /\ ~ret'[Main].compiled
              /\ constructed' = constructed)]_vars

\* a second call for a key has returned the value of the first without compiling
C3_Witness ==
    /\ ret[Main].op = "cached_compile" /\ ~ret[Main].compiled
    /\ ret[Main].value # NoValue
    /\ lastRet[ret[Main].key] = ret[Main].value
    /\ constructed >= 2

\* C4: while the capacity is 0 every cached_compile calls the compile service,
\* returns what it constructed and leaves the cache empty; with a capacity
\* above 0 a successful miss is stored, so caching resumes.
C4_ZeroDisables ==
    [][(ret'[Main].op = "cached_compile")
          => /\ (MainLimit = 0)
                  => /\ ret'[Main].compiled
                     /\ ret'[Main].error = "none" => ret'[Main].value = constructed'
                     /\ ret'[Main].error = "none" => constructed' = constructed + 1
                     /\ MainCache = << >> /\ MainCache' = << >>
             /\ (MainLimit # 0 /\ ret'[Main].error = "none")
                  => mapping_get(MainCache', ret'[Main].key) = ret'[Main].value]_vars

\* with the capacity at 0, a key that was compiled before has been compiled again
C4_Witness ==
    /\ MainLimit = 0 /\ MainCache = << >>
    /\ ret[Main].op = "cached_compile" /\ ret[Main].compiled
    /\ ret[Main].value >= 3

\* C5: a cached_compile whose compile fails returns the failure and leaves
\* the cache and its eviction order as they were; the key is not resident
\* afterwards, and a call for a key that is not resident calls the compile
\* service.
C5_FailureNotCached ==
    [][(ret'[Main].op = "cached_compile")
          => /\ (ret'[Main].error = "compile")
                  => /\ ret'[Main].value = NoValue
                     /\ MainCache' = MainCache
                     /\ gstate' = gstate
                     /\ threadEntry'[Main].pattern_cache = threadEntry[Main].pattern_cache
                     /\ ~DictHas(MainCache', ret'[Main].key)
             /\ ~DictHas(MainCache, ret'[Main].key) => ret'[Main].compiled]_vars

\* a compile has failed while the cache was full at its capacity
C5_Witness ==
    /\ ret[Main].op = "cached_compile" /\ ret[Main].error = "compile"
    /\ MainLimit = 2 /\ Len(MainCache) = 2

\* C6 as stated: set_cache_limit(n) with n > 0 on a cache of m entries leaves
\* exactly the min(m, n) most recently inserted ones.
C6_ShrinkKeepsNewest ==
    [][(/\ ret'[Main].op = "set_cache_limit" /\ ret'[Main].error = "none"
        /\ ret'[Main].limit > 0)
          => MainCache' = LastN(MainCache, ret'[Main].limit)]_vars

PatternCacheOps == {"cached_compile", "set_cache_limit", "clear_cache"}
ScratchPoolOps == {"match_data_acquire", "match_data_release", "jit_stack_acquire",
                   "jit_stack_release", "set_match_data_cache_size",
                   "set_jit_stack_cache_size", "clear_match_data_cache",
                   "clear_jit_stack_cache"}

\* C8: once any pattern-cache or scratch-pool operation (cached_compile,
\* acquire or release, and also set-capacity and clear) has been called
\* without error, the switch in front of it is locked.
C8_AnyCallLocks ==
    /\ ret[MainThread].op \in PatternCacheOps /\ ret[MainThread].error = "none"
          => CACHE_STRATEGY_LOCKED
    /\ pret[MainThread].op \in ScratchPoolOps /\ pret[MainThread].error = "none"
          => cache_strategy_locked

\* C9: the pattern cache and the scratch pools dispatch on one strategy,
\* locked for both at once.
C9_OneStrategy ==
    /\ CURRENT_STRATEGY = cache_strategy
    /\ CACHE_STRATEGY_LOCKED = cache_strategy_locked

\* C10: under the global strategy with threads interleaving cached_compile,
\* set_cache_limit and clear_cache, whenever no thread holds the lock the map
\* has at most n entries for the capacity n >= 0 in force.
C10_SharedCapacityBound ==
    glock = NoThread /\ gstate.cache_limit >= 0
        => Len(gstate.pattern_cache) <= gstate.cache_limit

\* the pools the main thread's calls are dispatched to
MainScratch ==
    IF cache_strategy = CACHE_STRATEGY_THREAD_LOCAL THEN tstate[MainThread] ELSE gpool
MainMatchPool == MainScratch.match
MainJitPool == MainScratch.jit

\* s without its i-th element
Without(seq, i) == SubSeq(seq, 1, i - 1) \o SubSeq(seq, i + 1, Len(seq))

\* the positions of the pooled blocks with at least r pairs
Fitting(pool, r) == {i \in 1..Len(pool.head) : pool.head[i].ovec_count >= r}

\* C13: with capacity >= 1 a released block is first in the pool, and an
\* acquire that follows the release with a requirement the block meets
\* returns that very block and constructs nothing.
C13_RoundTrip ==
    [][/\ \A object \in held[MainThread] :
             MainMatchPool.capacity >= 1 /\ MatchDataRelease(MainThread, object, TRUE)
                => /\ MainMatchPool'.head # << >>
                   /\ MainMatchPool'.head[1] = object
       /\ \A c \in CaptureCounts, ok \in BOOLEAN :
             /\ pret[MainThread].op = "match_data_release"
             /\ MainMatchPool.capacity >= 1
             /\ MainMatchPool.head # << >>
             /\ MainMatchPool.head[1].id = pret[MainThread].object
             /\ required_pairs_of(c) <= MainMatchPool.head[1].ovec_count
             /\ MatchDataAcquire(MainThread, c, ok)
             => /\ pret'[MainThread].object = pret[MainThread].object
                /\ pret'[MainThread].reused
                /\ made' = made]_vars

\* the one block ever constructed has been acquired, released and acquired again
C13_Witness ==
    /\ pret[MainThread].op = "match_data_acquire"
    /\ pret[MainThread].reused
    /\ made = 1
    /\ \E object \in held[MainThread] : object.id = pret[MainThread].object

\* C14: an acquire with requirement r returns the pooled block nearest the
\* head among those with at least r pairs, unlinks exactly that block, and
\* constructs a block only when none has r pairs.
C14_FirstFit ==
    [][\A c \in CaptureCounts, ok \in BOOLEAN :
         MatchDataAcquire(MainThread, c, ok) =>
            LET pool == MainMatchPool
                fits == Fitting(pool, required_pairs_of(c))
            IN IF fits # {}
               THEN LET i == CHOOSE k \in fits : \A j \in fits : k <= j
                    IN /\ pret'[MainThread].object = pool.head[i].id
                       /\ pret'[MainThread].reused
                       /\ pool.head[i] \in held'[MainThread]
                       /\ MainMatchPool'.head = Without(pool.head, i)
                       /\ made' = made
               ELSE /\ ~pret'[MainThread].reused
                    /\ made' = IF ok THEN made + 1 ELSE made]_vars

\* a block of 3 pairs has been returned from behind a block of 1 pair
C14_Witness ==
    /\ pret[MainThread].op = "match_data_acquire"
    /\ pret[MainThread].reused
    /\ \E object \in held[MainThread] :
          object.id = pret[MainThread].object /\ object.ovec_count = 3
    /\ MainMatchPool.head # << >>
    /\ MainMatchPool.head[1].ovec_count = 1

\* C16: when no pooled block has r pairs, the tail is destroyed if the pool
\* is at or above its non-zero capacity and nothing is destroyed otherwise,
\* and the block returned is new and has exactly r pairs.
C16_EvictThenConstruct ==
    [][\A c \in CaptureCounts :
         MatchDataAcquire(MainThread, c, TRUE)
         /\ Fitting(MainMatchPool, required_pairs_of(c)) = {} =>
            LET pool == MainMatchPool
                full == pool.capacity # 0 /\ pool.count >= pool.capacity
            IN /\ freed' \ freed = IF full THEN {pool.head[Len(pool.head)].id} ELSE {}
               /\ MainMatchPool'.head = IF full THEN SubSeq(pool.head, 1, Len(pool.head) - 1)
                                        ELSE pool.head
               /\ held'[MainThread] \ held[MainThread]
                     = {MatchData(made + 1, required_pairs_of(c))}
               /\ pret'[MainThread].object = made + 1
               /\ ~pret'[MainThread].reused]_vars

\* capacity 2: two blocks of 1 pair were pooled, and an acquire of 3 pairs
\* has destroyed the one released first and constructed a block of 3 pairs
C16_Witness ==
    /\ MainMatchPool.capacity = 2
    /\ pret[MainThread].op = "match_data_acquire"
    /\ ~pret[MainThread].reused
    /\ MatchData(3, 3) \in held[MainThread]
    /\ Cardinality(freed) = 1
    /\ Len(MainMatchPool.head) = 1
    /\ MainMatchPool.head[1].ovec_count = 1

\* the identities of the objects in a pool
Resident(pool) == {pool.head[i].id : i \in 1..Len(pool.head)}

C18_SizeValidated ==
    [][\A size \in SizeArgs :
         SetMatchDataCacheSize(MainThread, size) =>
            IF size < 0 \/ size >= WordModulus
            THEN /\ pret'[MainThread].error # "none"
                 /\ UNCHANGED <<tstate, gpool, freed>>
            ELSE MainMatchPool'.capacity = size]_vars

\* the four scratch pools the main thread's calls can reach
MainPools ==
    {tstate[MainThread].match, tstate[MainThread].jit, gpool.match, gpool.jit}

ContextSlots == {<<t, kind>> \in Threads \X BOOLEAN :
                   match_context_slot(tstate[t], kind) # NoValue}

\* C20: with the context cache enabled, an acquire constructs a context only
\* on the thread's first call for the kind and returns the context of that
\* first call ever after; no two slots hold the same context.
C20_OneContextPerKind ==
    [][\A t \in Threads, kind \in BOOLEAN, create_ok \in BOOLEAN :
         context_cache_enabled /\ MatchContextAcquire(t, kind, create_ok) =>
            /\ ctxSeen[t][kind] # NoValue =>
                  /\ pret'[t].object = ctxSeen[t][kind]
                  /\ made' = made
            /\ \A a \in ContextSlots', b \in ContextSlots' :
                  a # b => match_context_slot(tstate'[a[1]], a[2])
                             # match_context_slot(tstate'[b[1]], b[2])]_vars

\* the threads inside a section that runs under a lock
InsideOf(lock) ==
    {t \in Threads : frame[t].inside /\ Current(t).lock = lock}

\* the thread whose operation a step advances
Moves(t) == frame'[t] # frame[t]

C12_NoLockWhenConfined ==
    /\ glock = NoThread
    /\ \A lock \in PoolLocks : plocks[lock] = NoThread

\* C12, amended: with both strategies thread-local no operation acquires the
\* pattern-cache lock or a pool lock, and cached_compile and set_cache_limit
\* acquire no lock at all; the other operations acquire cache_state_lock
\* only, one at a time, for a section that reads or writes a strategy flag
\* and changes no cache and no pool.
C12_ConfinedLocks ==
    [][/\ (glock = NoThread)'
       /\ (plocks[MatchLock] = NoThread /\ plocks[JitLock] = NoThread)'
       /\ \A t \in Threads :
             /\ frame'[t].inside =>
                   /\ frame'[t].op \notin {"cached_compile", "set_cache_limit"}
                   /\ Head(frame'[t].steps).lock = StateLock
                   /\ Head(frame'[t].steps).body
                         \in {"mark_locked", "get_strategy", "tss_is_created"}
             /\ Moves(t) /\ frame[t].inside =>
                   UNCHANGED <<threadEntry, gstate, tstate, gpool, held, freed>>]_vars

\* a thread is reading the strategy under cache_state_lock on its way to its
\* own match-data pool while the other thread is in cached_compile on its own
\* pattern cache
C12_Witness ==
    /\ cache_strategy = CACHE_STRATEGY_THREAD_LOCAL
    /\ CURRENT_STRATEGY = CACHE_STRATEGY_THREAD_LOCAL
    /\ \E t \in Threads, u \in Threads :
          /\ t # u
          /\ plocks[StateLock] = t
          /\ frame[t].op = "match_data_acquire"
          /\ Current(t).body = "get_strategy"
          /\ frame[u].op = "cached_compile"
          /\ Current(u).body = "thread_compile"

\* two objects are equal by value
EqualByValue(object, other) == PyObject_RichCompareBool(object, other)
\* the last comparison was == or != between two cache keys
KeysCompared ==
    /\ compared.op \in {Py_EQ, Py_NE}
    /\ compared.other.type = "SparseCacheKey"
\* what that comparison says about the equality of the two keys
ComparedEqual == (compared.op = Py_EQ) <=> (compared.result = "True")

ShortHashed ==
    /\ hashed.arg.kind \in TextKinds \cup BufferKinds
    /\ Len(hashed.arg.data) <= 1

\* C22: for every text or bytes input of length 0 or 1 the sparse hash
\* returns the FNV offset basis, whatever the content, and does not fail.
C22_ShortInputsHashToOffset ==
    ShortHashed => hashed.error = "none" /\ hashed.value = Word(FNV64_OFFSET)

\* a one-element input was hashed
C22_Witness ==
    /\ ShortHashed
    /\ Len(hashed.arg.data) = 1
    /\ hashed.value = Word(FNV64_OFFSET)

\* cache_teardown has run
TornDown == CacheTss \in deleted

\* C23: a thread's cache state is destroyed when the thread exits or the
\* subsystem is torn down: once a thread has exited and teardown has run, no
\* pooled object that belonged to the thread remains allocated.
C23_NoPooledObjectLeft ==
    \A t \in exited : TornDown => StateObjects(tstate[t]) = {}

\* the scratch objects some thread or pool still refers to
Referenced ==
    UNION {{object.id : object \in held[t]} : t \in Threads}
        \cup UNION {StateObjects(tstate[t]) : t \in Threads}
        \cup PooledIds(gpool.match) \cup PooledIds(gpool.jit)

\* C24: cache_teardown may run while other threads use or tear down their
\* thread-confined state: with every call running as a whole (no call of
\* cache.c gives up the interpreter lock), no thread uses the thread-state
\* key, a lock or a scratch object after its destruction, and nothing is
\* destroyed twice.
C24_TeardownSafe ==
    /\ misuse = {}
    /\ \A r \in ResourceNames : handle[r] => r \notin deleted
    /\ Referenced \cap freed = {}

\* teardown ran on the main thread while another thread had a block checked
\* out, and that thread has returned the block since
C24_Witness ==
    /\ TornDown
    /\ pret[MainThread].op = "cache_teardown"
    /\ \E t \in Threads \ {MainThread} :
          /\ pret[t].op = "match_data_release"
          /\ pret[t].object \in freed

\* C25: once set_jit_stack_limits(s, m) has returned, every stack acquire
\* returns was created with the limits (s, m), the limits in force in the
\* pool it came from, also when a stack created under the old limits was
\* checked out during the call and released afterwards.
C25_StacksHaveCurrentLimits ==
    /\ pret[Main].op = "jit_stack_acquire"
    /\ pret[Main].object # NoValue
    => \E object \in held[Main] :
          /\ object.id = pret[Main].object
          /\ object.start = MainScratch.jit_start_size
          /\ object.max = MainScratch.jit_max_size

\* how many times object id is linked in a list
RECURSIVE Links(_, _)
Links(head, id) ==
    IF head = << >> THEN 0
    ELSE (IF head[1].id = id THEN 1 ELSE 0) + Links(Tail(head), id)

RECURSIVE ThreadLinks(_, _)
ThreadLinks(threads, id) ==
    IF threads = {} THEN 0
    ELSE LET t == CHOOSE u \in threads : TRUE
         IN Links(tstate[t].match.head, id) + Links(tstate[t].jit.head, id)
                + ThreadLinks(threads \ {t}, id)

\* residencies of id over the lists of every thread and the global lists
Residencies(id) ==
    Links(gpool.match.head, id) + Links(gpool.jit.head, id)
        + ThreadLinks(Threads, id)

Holders(id) == {t \in Threads : \E object \in held[t] : object.id = id}

\* an object constructed so far is held by one caller, or linked once in one
\* list, or destroyed
OneStatePerObject ==
    \A id \in 1..made :
        \/ Cardinality(Holders(id)) = 1 /\ Residencies(id) = 0 /\ id \notin freed
        \/ Holders(id) = {} /\ Residencies(id) = 1 /\ id \notin freed
        \/ Holders(id) = {} /\ Residencies(id) = 0 /\ id \in freed

\* an acquire hands out an object nobody held, and what a step destroys was
\* resident or was being released
Transfers ==
    /\ \A t \in Threads : \A object \in held'[t] \ held[t] :
          Holders(object.id) = {}
    /\ \A id \in freed' \ freed : Residencies(id) = 1 \/ Holders(id) # {}

\* C26: every scratch object is held by exactly one caller, or resident
\* exactly once in exactly one pool, or destroyed, and in one of these states
\* only; so no two acquires return the same object, no held object is
\* destroyed, every object evicted, cleared or shrunk away is destroyed, and
\* none is destroyed again.
C26_ObjectStates == []OneStatePerObject /\ [][Transfers]_vars

\* under the global strategy a shrink has destroyed an object while the
\* other thread holds one it took from a pool
C26_Witness ==
    /\ cache_strategy = CACHE_STRATEGY_GLOBAL
    /\ freed # {}
    /\ held[2] # {}
    /\ pret[MainThread].op = "set_match_data_cache_size"
    /\ pret[2].reused

\* the ledger entries eviction has not processed yet
Unprocessed == SubSeq(gstate.order, gstate.order_head + 1, Len(gstate.order))

\* how many entries of a ledger name key
RECURSIVE Occurrences(_, _)
Occurrences(order, key) ==
    IF order = << >> THEN 0
    ELSE (IF order[1] = key THEN 1 ELSE 0) + Occurrences(Tail(order), key)

\* C27: under the global strategy, whenever the pattern-cache lock is free,
\* every key of the map appears exactly once among the unprocessed ledger
\* entries and every unprocessed entry names a key of the map, also after
\* concurrent misses on the same key.
C27_LedgerMatchesMap ==
    CURRENT_STRATEGY = CACHE_STRATEGY_GLOBAL /\ glock = NoThread =>
        /\ \A key \in DictKeySet(gstate.pattern_cache) :
              Occurrences(Unprocessed, key) = 1
        /\ \A i \in 1..Len(Unprocessed) :
              Unprocessed[i] # PyNone =>
                  Unprocessed[i] \in DictKeySet(gstate.pattern_cache)

\* the step is a cached_compile of the main thread for a key that is resident
\* in the cache of the strategy in force
HitStep ==
    /\ ret'[Main].op = "cached_compile"
    /\ DictHas(MainCache, ret'[Main].key)
    /\ \E ok \in BOOLEAN :
          \/ ThreadCachedCompile(Main, ret'[Main].key, ok)
          \/ GlobalCachedCompile(Main, ret'[Main].key, ok)

\* C28: a cached_compile that hits returns the cached value without calling
\* the compiler and changes nothing: the entries and their order, and under
\* the global strategy the ledger and its head index, are as before.
C28_HitChangesNothing ==
    [][HitStep =>
          /\ ret'[Main].value = mapping_get(MainCache, ret'[Main].key)
          /\ ~ret'[Main].compiled /\ ~ret'[Main].inserted
          /\ constructed' = constructed
          /\ threadEntry' = threadEntry
          /\ gstate' = gstate]_vars

\* the last call hit a key that is not the newest of two resident entries,
\* under the global strategy
C28_Witness ==
    /\ CURRENT_STRATEGY = CACHE_STRATEGY_GLOBAL
    /\ ret[Main].op = "cached_compile" /\ ~ret[Main].compiled
    /\ Len(gstate.pattern_cache) = 2
    /\ gstate.pattern_cache[1][1] = ret[Main].key

\* a thread whose cached_compile missed under the global strategy and is
\* inside compile_fn
Compiling(t) == call[t].pc = "compiling"

\* C29: under the global strategy the pattern-cache lock is not held while
\* compile_fn runs: while one thread's miss is compiling the lock is free, and
\* any other thread that is not itself inside a call can run cached_compile
\* for a different key through its locked section.
C29_CompileOutsideLock ==
    \A t \in Threads :
       Compiling(t) =>
          /\ glock = NoThread
          /\ \A u \in Threads \ {t}, key \in SharedKeys \ {call[t].key} :
                Idle(u) => ENABLED SharedCompileBegin(u, key, TRUE)

\* one thread is inside compile_fn for a key while another thread has
\* completed a miss for a different key, whose value is in the map
C29_Witness ==
    \E t \in Threads, u \in Threads :
       /\ t # u
       /\ Compiling(t)
       /\ Idle(u)
       /\ ret[u].op = "cached_compile"
       /\ ret[u].inserted
       /\ ret[u].key # call[t].key
       /\ ret[u].value = constructed
       /\ mapping_get(gstate.pattern_cache, ret[u].key) = ret[u].value
       /\ ~DictHas(gstate.pattern_cache, call[t].key)

\* thread u has returned from a miss on key whose value is in the map while
\* thread t, which missed on the same key, is still inside compile_fn
InsertedDuring(t, u) ==
    /\ t # u
    /\ Compiling(t)
    /\ Idle(u)
    /\ ret[u].op = "cached_compile"
    /\ ret[u].key = call[t].key
    /\ ret[u].compiled
    /\ ret[u].inserted
    /\ mapping_get(gstate.pattern_cache, call[t].key) = ret[u].value

\* C30: under the global strategy, when two threads miss on the same key
\* concurrently, each returns the value it constructed itself, and once the
\* second has inserted the map holds exactly one entry for the key, whose
\* value is the one inserted last.
C30_LastInsertWins ==
    [][\A t \in Threads, u \in Threads :
          (InsertedDuring(t, u) /\ SharedCompileEnd(t, TRUE)) =>
              /\ ret'[t].compiled
              /\ ret'[t].value = constructed'
              /\ ret'[t].value # ret[u].value
              /\ ret'[u] = ret[u]
              /\ Occurrences(DictKeys(gstate'.pattern_cache), call[t].key) = 1
              /\ mapping_get(gstate'.pattern_cache, call[t].key) = ret'[t].value]_vars

\* both threads have returned from a miss on the same key, each with its own
\* value, the map holds the later one and the ledger names the key twice
C30_Witness ==
    \E t \in Threads, u \in Threads :
       /\ t # u
       /\ Idle(t) /\ Idle(u)
       /\ ret[t].op = "cached_compile" /\ ret[u].op = "cached_compile"
       /\ ret[t].key = ret[u].key
       /\ ret[t].inserted /\ ret[u].inserted
       /\ ret[t].compiled /\ ret[u].compiled
       /\ ret[u].value < ret[t].value
       /\ Occurrences(DictKeys(gstate.pattern_cache), ret[t].key) = 1
       /\ mapping_get(gstate.pattern_cache, ret[t].key) = ret[t].value
       /\ Occurrences(Unprocessed, ret[t].key) = 2

\* the first n elements of a sequence (all of it when it is shorter)
FirstN(s, n) == IF Len(s) <= n THEN s ELSE SubSeq(s, 1, n)

\* the identities of the elements of s after the first n
BeyondN(s, n) == {s[i].id : i \in (n + 1)..Len(s)}

\* the object of the main thread's last release, as it was held before
Released == CHOOSE object \in held[MainThread] : object.id = pret'[MainThread].object

\* the step is a release into before, or a set-size on it, that left the
\* pool as after: survivors are those that fit the capacity counted from the
\* head, the rest is destroyed, nothing else is
TailOnly(before, after, release, resize) ==
    /\ pret'[MainThread].op = resize =>
          /\ after.head = FirstN(before.head, after.capacity)
          /\ freed' \ freed = BeyondN(before.head, after.capacity)
    /\ pret'[MainThread].op = release /\ pret'[MainThread].object \notin freed' =>
          /\ after.capacity >= 1
          /\ after.head = FirstN(<<Released>> \o before.head, after.capacity)
          /\ after.head[1] = Released
          /\ freed' \ freed = BeyondN(<<Released>> \o before.head, after.capacity)

ThreadConfined ==
    /\ CURRENT_STRATEGY = CACHE_STRATEGY_THREAD_LOCAL
    /\ cache_strategy = CACHE_STRATEGY_THREAD_LOCAL

\* the step has created thread t's ThreadCacheState with the defaults, the
\* values the call itself sets apart
CreatedWithDefaults(t) ==
    ~tstate[t].exists /\ tstate'[t].exists =>
       /\ pret'[t].op # "set_match_data_cache_size" =>
             tstate'[t].match.capacity = DEFAULT_THREAD_MATCH_CAPACITY
       /\ pret'[t].op # "set_jit_stack_cache_size" =>
             tstate'[t].jit.capacity = DEFAULT_THREAD_JIT_CAPACITY
       /\ pret'[t].op # "set_jit_stack_limits" =>
             /\ tstate'[t].jit_start_size = DEFAULT_JIT_START_SIZE
             /\ tstate'[t].jit_max_size = DEFAULT_JIT_MAX_SIZE

\* the step has created thread t's ThreadCacheEntry with the default limit,
\* unless the call is the one that sets the limit
EntryCreatedWithDefault(t) ==
    ~threadEntry[t].exists /\ threadEntry'[t].exists /\ ret'[t].op # "set_cache_limit"
       => threadEntry'[t].cache_limit = DEFAULT_THREAD_CACHE_LIMIT

\* C32: under the thread-local strategy a call made by thread t changes no
\* other thread's pattern cache, pools, capacities or stack sizes, and a
\* thread's state is created at its first access with the default
\* capacities, whatever other threads have set.
C32_OwnStateOnly ==
    [][\A t \in Threads :
          ThreadConfined /\ OwnCalls(t) =>
             /\ \A u \in Threads \ {t} :
                   tstate'[u] = tstate[u] /\ threadEntry'[u] = threadEntry[u]
             /\ CreatedWithDefaults(t)
             /\ EntryCreatedWithDefault(t)]_vars

\* the main thread has set its capacities, limit and stack sizes; another
\* thread, whose state was created later, has the defaults and a resident
\* object and entry of its own
C32_Witness ==
    \E u \in Threads \ {MainThread} :
       /\ ThreadConfined
       /\ tstate[MainThread].match.capacity = 1
       /\ tstate[MainThread].jit_start_size = 1
       /\ threadEntry[MainThread].exists /\ threadEntry[MainThread].cache_limit = 1
       /\ tstate[u].exists
       /\ tstate[u].match.capacity = DEFAULT_THREAD_MATCH_CAPACITY
       /\ tstate[u].jit_start_size = DEFAULT_JIT_START_SIZE
       /\ tstate[u].match.count = 1
       /\ threadEntry[u].exists
       /\ threadEntry[u].cache_limit = DEFAULT_THREAD_CACHE_LIMIT
       /\ Len(threadEntry[u].pattern_cache) = 1

\* a call of thread t on the match-data pool or the JIT-stack pool
ScratchPoolCall(t) ==
    \/ \E capture_count \in CaptureCounts, create_ok \in BOOLEAN :
          MatchDataAcquire(t, capture_count, create_ok)
    \/ \E object \in held[t], node_ok \in BOOLEAN : MatchDataRelease(t, object, node_ok)
    \/ \E create_ok \in BOOLEAN : JitStackAcquire(t, create_ok)
    \/ \E object \in held[t], node_ok \in BOOLEAN : JitStackRelease(t, object, node_ok)
    \/ \E size \in SizeArgs : SetMatchDataCacheSize(t, size)
    \/ \E size \in SizeArgs : SetJitStackCacheSize(t, size)
    \/ ClearMatchDataCache(t)
    \/ ClearJitStackCache(t)

\* C33: no call on the match-data pool or the JIT-stack pool (acquire,
\* release, set-size, clear) destroys or replaces a thread's cached match
\* context: each slot holds the same live context after the call as before.
C33_ContextsOutlivePoolCalls ==
    [][\A t \in Threads, u \in Threads, kind \in BOOLEAN :
          ScratchPoolCall(t) /\ match_context_slot(tstate[u], kind) # NoValue =>
             /\ match_context_slot(tstate'[u], kind) = match_context_slot(tstate[u], kind)
             /\ match_context_slot(tstate[u], kind) \notin freed']_vars

\* some thread's last call was a scratch-pool operation that returned without
\* error, so it has read the strategy to find its pools
PoolOperationRead ==
    \E t \in Threads : pret[t].op \in ScratchPoolOps /\ pret[t].error = "none"

\* C34: with every thread calling scratch-pool operations and
\* set_cache_strategy, all pool operations dispatch on one strategy: once an
\* acquire or release has locked the switch, or any pool operation has read
\* it, no set_cache_strategy changes it.
C34_OneBacking ==
    [][cache_strategy_locked \/ PoolOperationRead
          => cache_strategy' = cache_strategy]_vars

\* the locks of the global caches
SharedLocks == {PatternLock, MatchLock, JitLock}

\* the locks thread t holds
LocksHeld(t) == {lock \in SharedLocks \cup {StateLock} : Holder(lock) = t}

\* thread t is blocked in PyThread_acquire_lock on a lock of the global caches
Waiting(t) ==
    /\ frame[t].op # "none"
    /\ ~frame[t].inside
    /\ Current(t).lock \in SharedLocks

\* a thread holds a lock only inside the section that took it, and so none
\* when its operation has returned and never two at once
LocksReleased ==
    \A t \in Threads :
       /\ frame[t].op = "none" => LocksHeld(t) = {}
       /\ frame[t].op # "none" =>
             LocksHeld(t) = IF frame[t].inside THEN {Current(t).lock} ELSE {}

\* C35: every operation on the global caches releases each lock it took
\* before it returns, on every path, and never holds two of the
\* pattern-cache, match-data and JIT-stack locks at once; so under a fair
\* scheduler a thread waiting for one of these locks acquires it.
C35_LocksReleasedAndGranted ==
    /\ []LocksReleased
    /\ \A t \in Threads : Waiting(t) ~> frame[t].inside

\* a thread waits for the pattern-cache lock while another thread is inside
\* its section
C35_Witness ==
    \E t \in Threads, u \in Threads :
       /\ t # u
       /\ Waiting(t)
       /\ Current(t).lock = PatternLock
       /\ glock = u
       /\ frame[u].inside

\* C36: given the same calls by one thread from empty caches of one capacity,
\* the thread-local and the global pattern cache answer every cached_compile
\* alike (both from the cache or both by compiling) and hold the same keys
\* after every call.
C36_SameOutcomeAndKeys ==
    EqualCapacity =>
        /\ ret[MainThread].compiled = ret[SharedRun].compiled
        /\ DictKeySet(threadEntry[MainThread].pattern_cache)
               = DictKeySet(gstate.pattern_cache)

\* the contexts the two cache slots of thread t reference
SlotContexts(state) ==
    {match_context_slot(state, use_offset_limit) : use_offset_limit \in BOOLEAN}
        \ {NoValue}

\* C37: a match_context_cache_release never destroys a context that the
\* calling thread's cache slot still references, nor one that was destroyed
\* before, whatever acquires, releases and cache_set_context_cache_enabled
\* calls came earlier.
C37_SlotContextsOutliveRelease ==
    [][\A t \in Threads : \A context \in lent[t] :
          MatchContextRelease(t, context) /\ context \in freed' =>
              /\ context \notin SlotContexts(tstate'[t])
              /\ context \notin freed]_vars

\* a release by thread t whose free-list node could not be allocated
NodeFailure(t, object) ==
    \/ MatchDataRelease(t, object, FALSE)
    \/ JitStackRelease(t, object, FALSE)

\* a cached_compile by thread t whose store into the cache fails, should it
\* come to the store
StoreFailure(t, key) ==
    \/ ThreadCachedCompileStoring(t, key, TRUE, FALSE)
    \/ \E append_ok \in BOOLEAN : GlobalCachedCompileStoring(t, key, TRUE, FALSE, append_ok)

\* C38: a release whose list node cannot be allocated destroys the released
\* object, leaves every pool as it was and reports no error; a cached_compile
\* that compiled its value and failed to store it returns that value and
\* reports no error.
C38_FailuresDegrade ==
    [][/\ \A object \in held[MainThread] :
             NodeFailure(MainThread, object) =>
                 /\ object.id \in freed'
                 /\ tstate' = tstate /\ gpool' = gpool
                 /\ pret'[MainThread].error = "none"
       /\ \A key \in DegradeKeys :
             StoreFailure(MainThread, key) /\ ret'[MainThread].compiled =>
                 /\ constructed' = constructed + 1
                 /\ ret'[MainThread].value = constructed'
                 /\ ret'[MainThread].error = "none"]_vars

\* a compiled value was returned though its store failed, and a released
\* block or stack was destroyed though its pool had room
C38_Witness ==
    /\ ret[MainThread].op = "cached_compile"
    /\ ret[MainThread].compiled /\ ~ret[MainThread].inserted
    /\ ret[MainThread].value # NoValue
    /\ ActiveLimit(CURRENT_STRATEGY, threadEntry, gstate, MainThread) # 0
    /\ pret[MainThread].op \in {"match_data_release", "jit_stack_release"}
    /\ pret[MainThread].object \in freed
    /\ LET state == ScratchState(cache_strategy, MainThread)
       IN state.match.capacity > 0 /\ state.jit.capacity > 0

RECURSIVE IsPowerOfTwo(_)
IsPowerOfTwo(n) == n = 1 \/ (n > 1 /\ n % 2 = 0 /\ IsPowerOfTwo(n \div 2))

\* the powers of two a stride can be for the lengths of SpecStride
StridePowers == {s \in 2..MaxStrideLen : IsPowerOfTwo(s)}

\* the smallest power of two, 2 or more, that goes into length at most 8 times
SmallestStride(length) ==
    CHOOSE s \in StridePowers :
        /\ length \div s <= 8
        /\ \A smaller \in StridePowers : smaller < s => length \div smaller > 8

\* the elements s-1, 2s-1, 3s-1, ... below length, counted from 0, as
\* positions counted from 1
SampledPositions(length) ==
    LET s == SmallestStride(length)
    IN {k * s : k \in 1..(length \div s)}

RECURSIVE MixInOrder(_, _, _)
\* the FNV-1a mix of the elements of data at positions, lowest position first
MixInOrder(hash, data, positions) ==
    IF positions = {} THEN hash
    ELSE LET first == CHOOSE p \in positions : \A q \in positions : p <= q
         IN MixInOrder(Word(Xor(hash, Word(data[first])) * FNV64_PRIME),
                       data, positions \ {first})

\* the arguments of SpecStride that have length elements
SameLength(length) == {input \in StrideArgs : Len(input.data) = length}

\* input has the length of data and the same elements at the sampled positions
AgreesWhereSampled(input, data) ==
    /\ Len(input.data) = Len(data)
    /\ \A p \in SampledPositions(Len(data)) : input.data[p] = data[p]

\* C39: for a str or bytes argument of length L >= 2 the stride is the
\* smallest power of two >= 2 with L div stride <= 8, the hash is the mix of
\* the elements at positions stride-1, 2*stride-1, ... below L and of L,
\* these are at most 8 elements, and every argument of the same length with
\* the same elements at those positions has the same hash.
C39_SparseSampling ==
    LET data == hashed.arg.data
        length == Len(data)
    IN hashed.arg.kind \in TextKinds \cup BufferKinds /\ length >= 2 =>
          /\ hashed.error = "none"
          /\ compute_sparse_stride(length) = SmallestStride(length)
          /\ Cardinality(SampledPositions(length)) <= 8
          /\ hashed.value =
                sparse_hash_finish(
                    MixInOrder(Word(FNV64_OFFSET), data, SampledPositions(length)),
                    length)
          /\ \A input \in SameLength(length) :
                AgreesWhereSampled(input, data) =>
                    module_sparse_half_hash(input).value = hashed.value

\* an argument of the greatest length was hashed with a stride above 2, and
\* it has its marked element where the hash does not look
C39_Witness ==
    LET data == hashed.arg.data
    IN /\ hashed.arg.kind \in BufferKinds
       /\ Len(data) = MaxStrideLen
       /\ compute_sparse_stride(Len(data)) > 2
       /\ \E p \in 1..Len(data) :
             p \notin SampledPositions(Len(data)) /\ data[p] = 98
       /\ hashed.value = module_sparse_half_hash(
                             [hashed.arg EXCEPT !.data = Marked(Len(data), 0)]).value

\* the ledger entries the eviction has not passed yet
UnprocessedOf(st) == SubSeq(st.order, st.order_head + 1, Len(st.order))

HeadInRange == 0 <= gstate.order_head /\ gstate.order_head <= Len(gstate.order)

\* the call emptied the ledger: clear_cache, or set_cache_limit(0)
LedgerEmptied(r) ==
    \/ r.op = "clear_cache"
    \/ r.op = "set_cache_limit" /\ r.error = "none" /\ r.limit = 0

\* what a call that does not empty the ledger does to it. full is the ledger
\* with the key the call appended, processed the length of the prefix that
\* eviction has passed at the end of the call (each eviction passes one
\* entry), removed the number of entries the call took off the ledger.
LedgerStep ==
    LET r == ret'[MainThread]
        appended == IF r.op = "cached_compile" /\ r.inserted THEN <<r.key>> ELSE << >>
        full == gstate.order \o appended
        evicted == Len(gstate.pattern_cache) + Len(appended) - Len(gstate'.pattern_cache)
        processed == gstate.order_head + evicted
        removed == Len(full) - Len(gstate'.order)
    IN ~LedgerEmptied(r) =>
          /\ removed \in {0, processed}
          /\ removed > 0 =>
                /\ processed > CompactThreshold
                /\ processed * 2 > Len(full)
                /\ gstate'.order_head = 0
          /\ removed = 0 => gstate'.order_head = processed
          /\ UnprocessedOf(gstate') = SubSeq(full, processed + 1, Len(full))

\* C40: the head of the global cache's ledger stays between 0 and the
\* ledger's length; entries leave the ledger (other than by emptying it) only
\* as the whole processed prefix, only when that prefix is longer than 64
\* entries and than half the ledger, the head is then 0, and the unprocessed
\* entries stay as they were.
C40_LedgerCompaction == []HeadInRange /\ [][LedgerStep]_vars

\* the last two calls that touched the cache inserted a key at capacity 1, so
\* the second evicted, and the head is 0: the prefix was dropped
C40_Witness ==
    /\ gstate.cache_limit = 1
    /\ Len(missLog) = 2
    /\ ret[MainThread].op = "cached_compile" /\ ret[MainThread].inserted
    /\ gstate.order_head = 0
    /\ Len(gstate.order) = 1
    /\ constructed > CompactThreshold

=============================================================================
